---- MODULE Spec2Model ----
(***************************************************************************)
(* Joint-angle time-series analysis of milhud/divhacks2025.                *)
(*                                                                         *)
(* The session machine below is good_gym_analyzer.py: analyze_video from   *)
(* the pose-count check on (the tracked joint's angle sequence is the      *)
(* input), get_adaptive_thresholds, and GoodGymCounter (smooth_angle,      *)
(* count_rep).                                                             *)
(*                                                                         *)
(* Numbers.  Angles are whole degrees.  Every value the code derives from  *)
(* them (thresholds, medians, means, times) is kept as an exact fraction   *)
(* [n, d] with d > 0, and every comparison of the code is made on the      *)
(* fractions by cross-multiplication: the model computes in exact real     *)
(* arithmetic where the code computes in IEEE doubles.  A time t seconds   *)
(* is kept as the frame number t * fps.                                    *)
(***************************************************************************)
EXTENDS Integers, Sequences, FiniteSets, TLC

VARIABLES
    pc,              \* position in analyze_video: poses, start, seed, count, done, raised
    angle_sequence,  \* the tracked joint's angles, one per detected pose
    fps,             \* frames per second of the video
    down_threshold,  \* low threshold  (fraction)
    up_threshold,    \* high threshold (fraction)
    i,               \* samples already handed to count_rep
    counter,         \* GoodGymCounter.counter
    stage,           \* GoodGymCounter.stage: None, "up" or "down"
    angle_history,   \* GoodGymCounter.angle_history, a deque of at most 5
    last_count_time, \* GoodGymCounter.last_count_time, in frames
    smoothed,        \* count_rep's local: the last smoothed angle (fraction)
    current_time,    \* count_rep's local: the last sample's time, in frames
    rep_log,         \* the frames of the "[REP COUNTED]" log lines, in order
    results,         \* rep_count of every analyze_video call that returned
    call,            \* a call of one of the peak-based counters: its arguments
    ret,             \* <<what that call returned>>, <<>> while it has not
    scores,          \* ExerciseClassifier.classify's local: the score of each signature
    keypoints_history, \* VideoProcessor.keypoints_history
    pose_closed,     \* whether VideoProcessor.pose has been closed
    sessions         \* the GoodGymCounter of each of two concurrent sessions

\* The state of the objects other than the one session and the one call.
OtherState == <<keypoints_history, pose_closed, sessions>>

NoOtherState ==
    /\ keypoints_history = <<>>
    /\ pose_closed = FALSE
    /\ sessions = <<>>

vars == <<pc, angle_sequence, fps, down_threshold, up_threshold, i, counter,
          stage, angle_history, last_count_time, smoothed, current_time,
          rep_log, results, call, ret, scores, OtherState>>

(***************************************************************************)
(* Bounds of the model.                                                    *)
(***************************************************************************)
MaxLen == 7
Angles == {60, 115, 170}
FpsSet == {15, 30}

None == "None"

(***************************************************************************)
(* Exact fractions.                                                        *)
(***************************************************************************)
Rat(n, d) == [n |-> n, d |-> d]
RLt(a, b) == a.n * b.d < b.n * a.d
RGt(a, b) == RLt(b, a)
RLe(a, b) == ~RLt(b, a)
REq(a, b) == a.n * b.d = b.n * a.d

Range(s) == {s[k] : k \in DOMAIN s}
SeqMin(s) == CHOOSE x \in Range(s) : \A y \in Range(s) : x <= y
SeqMax(s) == CHOOSE x \in Range(s) : \A y \in Range(s) : x >= y

RECURSIVE SeqSum(_)
SeqSum(s) == IF s = <<>> THEN 0 ELSE Head(s) + SeqSum(Tail(s))

RECURSIVE Insert(_, _)
Insert(x, s) ==
    IF s = <<>> THEN <<x>>
    ELSE IF x <= Head(s) THEN <<x>> \o s
    ELSE <<Head(s)>> \o Insert(x, Tail(s))

RECURSIVE Sorted(_)
Sorted(s) == IF s = <<>> THEN <<>> ELSE Insert(Head(s), Sorted(Tail(s)))

\* np.median: the middle element, or the mean of the two middle elements.
Median(s) ==
    LET t == Sorted(s)
        n == Len(s)
    IN  IF n % 2 = 1 THEN Rat(t[(n + 1) \div 2], 1)
        ELSE Rat(t[n \div 2] + t[n \div 2 + 1], 2)

\* n^2 times the population variance of s (np.std(s)^2 = VarN2(s) / n^2).
VarN2(s) ==
    LET sq == [k \in DOMAIN s |-> s[k] * s[k]]
    IN  Len(s) * SeqSum(sq) - SeqSum(s) * SeqSum(s)

\* abs(x - median) <= 2 * std, squared on both sides: m is the median, v is
\* n^2 times the variance.
WithinTwoStd(x, m, v, n) ==
    LET dev == x * m.d - m.n
    IN  dev * dev * n * n <= 4 * m.d * m.d * v

\* get_adaptive_thresholds at 30% and 70% of the range.
get_adaptive_thresholds_30_70(angles) ==
    LET min_angle == SeqMin(angles)
        max_angle == SeqMax(angles)
        range_val == max_angle - min_angle
    IN  [down |-> Rat(10 * min_angle + range_val * 3, 10),
         up   |-> Rat(10 * min_angle + range_val * 7, 10)]

\* get_adaptive_thresholds with the two fractions of the range exchanged.
get_adaptive_thresholds_swapped(angles) ==
    LET min_angle == SeqMin(angles)
        max_angle == SeqMax(angles)
        range_val == max_angle - min_angle
    IN  [down |-> Rat(10 * min_angle + range_val * 6, 10),
         up   |-> Rat(10 * min_angle + range_val * 4, 10)]

(***************************************************************************)
(* get_adaptive_thresholds: (down, up) = min + 0.4 range, min + 0.6 range. *)
(***************************************************************************)
get_adaptive_thresholds(angles) ==
    LET min_angle == SeqMin(angles)
        max_angle == SeqMax(angles)
        range_val == max_angle - min_angle
    IN  [down |-> Rat(10 * min_angle + range_val * 4, 10),
         up   |-> Rat(10 * min_angle + range_val * 6, 10)]

(***************************************************************************)
(* GoodGymCounter.                                                         *)
(***************************************************************************)
HistoryMaxLen == 5
MinSmoothLen == 3
min_rep_time == Rat(1, 2)
FrameStride == 3
MinPoses == 5

\* A deque without maxlen.
DequeAppend_unbounded(h, x) == Append(h, x)

\* deque(maxlen=5).append
DequeAppend(h, x) ==
    IF Len(h) = HistoryMaxLen THEN Append(Tail(h), x) ELSE Append(h, x)

\* smooth_angle's return value, h being angle_history after the append.
SmoothValue(h, angle) ==
    IF Len(h) < MinSmoothLen THEN Rat(angle, 1)
    ELSE LET median_angle == Median(h)
             std_dev_n2 == VarN2(h)
             n == Len(h)
             filtered == SelectSeq(h, LAMBDA x :
                             WithinTwoStd(x, median_angle, std_dev_n2, n))
         IN  IF Len(filtered) > 0
             THEN Rat(SeqSum(filtered), Len(filtered))
             ELSE Rat(angle, 1)

\* The gap test with current_time in place of time_since_last.
GapPassed_since_start(now, last, f) ==
    now * min_rep_time.d > min_rep_time.n * f

\* The gap test with >= in place of >.
GapPassed_or_equal(now, last, f) ==
    (now - last) * min_rep_time.d >= min_rep_time.n * f

\* time_since_last > self.min_rep_time, both times in frames.
GapPassed(now, last, f) ==
    (now - last) * min_rep_time.d > min_rep_time.n * f

\* count_rep that leaves last_count_time as it was when it counts.
count_rep_keeps_time(self, s, frame_num, f, up, down) ==
    IF RGt(s, up)
    THEN [stage |-> "up", counter |-> self.counter,
          last_count_time |-> self.last_count_time, counted |-> FALSE]
    ELSE IF /\ RLt(s, down)
            /\ self.stage = "up"
            /\ GapPassed(frame_num, self.last_count_time, f)
    THEN [stage |-> "down", counter |-> self.counter + 1,
          last_count_time |-> self.last_count_time, counted |-> TRUE]
    ELSE [stage |-> self.stage, counter |-> self.counter,
          last_count_time |-> self.last_count_time, counted |-> FALSE]

\* count_rep that counts from every stage but "down".
count_rep_from_unknown(self, s, frame_num, f, up, down) ==
    IF RGt(s, up)
    THEN [stage |-> "up", counter |-> self.counter,
          last_count_time |-> self.last_count_time, counted |-> FALSE]
    ELSE IF /\ RLt(s, down)
            /\ self.stage # "down"
            /\ GapPassed(frame_num, self.last_count_time, f)
    THEN [stage |-> "down", counter |-> self.counter + 1,
          last_count_time |-> frame_num, counted |-> TRUE]
    ELSE [stage |-> self.stage, counter |-> self.counter,
          last_count_time |-> self.last_count_time, counted |-> FALSE]

\* count_rep that goes "up" only from "down".
count_rep_up_from_down(self, s, frame_num, f, up, down) ==
    IF RGt(s, up)
    THEN [stage |-> IF self.stage = "down" THEN "up" ELSE self.stage,
          counter |-> self.counter,
          last_count_time |-> self.last_count_time, counted |-> FALSE]
    ELSE IF /\ RLt(s, down)
            /\ self.stage = "up"
            /\ GapPassed(frame_num, self.last_count_time, f)
    THEN [stage |-> "down", counter |-> self.counter + 1,
          last_count_time |-> frame_num, counted |-> TRUE]
    ELSE [stage |-> self.stage, counter |-> self.counter,
          last_count_time |-> self.last_count_time, counted |-> FALSE]

\* count_rep that goes "down" on a crossing the refractory period blocks.
count_rep_blocked_down(self, s, frame_num, f, up, down) ==
    IF RGt(s, up)
    THEN [stage |-> "up", counter |-> self.counter,
          last_count_time |-> self.last_count_time, counted |-> FALSE]
    ELSE IF RLt(s, down) /\ self.stage = "up"
    THEN IF GapPassed(frame_num, self.last_count_time, f)
         THEN [stage |-> "down", counter |-> self.counter + 1,
               last_count_time |-> frame_num, counted |-> TRUE]
         ELSE [stage |-> "down", counter |-> self.counter,
               last_count_time |-> self.last_count_time, counted |-> FALSE]
    ELSE [stage |-> self.stage, counter |-> self.counter,
          last_count_time |-> self.last_count_time, counted |-> FALSE]

\* count_rep that stays "up" when it counts.
count_rep_stays_up(self, s, frame_num, f, up, down) ==
    IF RGt(s, up)
    THEN [stage |-> "up", counter |-> self.counter,
          last_count_time |-> self.last_count_time, counted |-> FALSE]
    ELSE IF /\ RLt(s, down)
            /\ self.stage = "up"
            /\ GapPassed(frame_num, self.last_count_time, f)
    THEN [stage |-> "up", counter |-> self.counter + 1,
          last_count_time |-> frame_num, counted |-> TRUE]
    ELSE [stage |-> self.stage, counter |-> self.counter,
          last_count_time |-> self.last_count_time, counted |-> FALSE]

\* count_rep after the smoothing: the counter's fields after the call, and
\* whether the call returned True.  self holds the fields before it, s is the
\* smoothed angle, frame_num / f the sample's time.
count_rep(self, s, frame_num, f, up, down) ==
    IF RGt(s, up)
    THEN [stage |-> "up", counter |-> self.counter,
          last_count_time |-> self.last_count_time, counted |-> FALSE]
    ELSE IF /\ RLt(s, down)
            /\ self.stage = "up"
            /\ GapPassed(frame_num, self.last_count_time, f)
    THEN [stage |-> "down", counter |-> self.counter + 1,
          last_count_time |-> frame_num, counted |-> TRUE]
    ELSE [stage |-> self.stage, counter |-> self.counter,
          last_count_time |-> self.last_count_time, counted |-> FALSE]

\* A counter that is kept from one call to the next instead of being made.
NewCounter_kept ==
    [counter |-> 0, stage |-> None, angle_history |-> angle_history,
     last_count_time |-> last_count_time]

\* A fresh GoodGymCounter().
NewCounter ==
    [counter |-> 0, stage |-> None, angle_history |-> <<>>,
     last_count_time |-> 0]

\* The seeding with a plain else in place of the elif.
SeedStage_else_down(first, down, up) ==
    IF RGt(Rat(first, 1), up) THEN "up" ELSE "down"

\* The stage analyze_video gives the new counter from the first angle.
SeedStage(first, down, up) ==
    IF RGt(Rat(first, 1), up) THEN "up"
    ELSE IF RLt(Rat(first, 1), down) THEN "down"
    ELSE NewCounter.stage

(***************************************************************************)
(* analyze_video.                                                          *)
(***************************************************************************)
\* No call has started: no thresholds and no counter exist yet.
Idle ==
    /\ down_threshold = None
    /\ up_threshold = None
    /\ i = 0
    /\ counter = 0
    /\ stage = None
    /\ angle_history = <<>>
    /\ last_count_time = 0
    /\ smoothed = None
    /\ current_time = 0
    /\ rep_log = <<>>
    /\ results = <<>>

\* No peak-based counter is called.
NoCall ==
    /\ call = None
    /\ ret = <<>>
    /\ scores = <<>>
    /\ NoOtherState

SeqsUpTo(n) == UNION {[1..k -> Angles] : k \in 0..n}

Init ==
    /\ pc = "start"
    /\ angle_sequence \in SeqsUpTo(MaxLen)
    /\ fps \in FpsSet
    /\ Idle
    /\ NoCall

\* pose_count < 5: raise Exception("Insufficient poses").
InsufficientPoses ==
    /\ pc = "start"
    /\ Len(angle_sequence) < MinPoses
    /\ pc' = "raised"
    /\ UNCHANGED <<angle_sequence, fps, down_threshold, up_threshold, i,
                   counter, stage, angle_history, last_count_time, smoothed,
                   current_time, rep_log, results,
                   call, ret, scores, OtherState>>

\* down_threshold, up_threshold = get_adaptive_thresholds(angle_sequence)
GetThresholds ==
    /\ pc = "start"
    /\ Len(angle_sequence) >= MinPoses
    /\ LET t == get_adaptive_thresholds(angle_sequence)
       IN  /\ down_threshold' = t.down
           /\ up_threshold' = t.up
    /\ pc' = "seed"
    /\ UNCHANGED <<angle_sequence, fps, i, counter, stage, angle_history,
                   last_count_time, smoothed, current_time, rep_log, results,
                   call, ret, scores, OtherState>>

\* counter = GoodGymCounter(), and its stage from angle_sequence[0].
Seed ==
    /\ pc = "seed"
    /\ counter' = NewCounter.counter
    /\ angle_history' = NewCounter.angle_history
    /\ last_count_time' = NewCounter.last_count_time
    /\ stage' = SeedStage(angle_sequence[1], down_threshold, up_threshold)
    /\ i' = 0
    /\ smoothed' = None
    /\ current_time' = 0
    /\ rep_log' = <<>>
    /\ pc' = "count"
    /\ UNCHANGED <<angle_sequence, fps, down_threshold, up_threshold, results,
                   call, ret, scores, OtherState>>

\* One pass of the loop: counter.count_rep(angle, ..., (i + 1) * 3, fps, ...).
CountRep ==
    /\ pc = "count"
    /\ i < Len(angle_sequence)
    /\ LET angle == angle_sequence[i + 1]
           frame_num == (i + 1) * FrameStride
           h == DequeAppend(angle_history, angle)
           self == [counter |-> counter, stage |-> stage,
                    last_count_time |-> last_count_time]
       IN  \E s \in {SmoothValue(h, angle)} :
           \E after \in {count_rep(self, s, frame_num, fps, up_threshold,
                                   down_threshold)} :
               /\ angle_history' = h
               /\ smoothed' = s
               /\ current_time' = frame_num
               /\ stage' = after.stage
               /\ counter' = after.counter
               /\ last_count_time' = after.last_count_time
               /\ rep_log' = IF after.counted
                             THEN Append(rep_log, frame_num)
                             ELSE rep_log
    /\ i' = i + 1
    /\ UNCHANGED <<pc, angle_sequence, fps, down_threshold, up_threshold,
                   results, call, ret, scores, OtherState>>

\* rep_count = counter.counter, and the result record is returned.
Return ==
    /\ pc = "count"
    /\ i = Len(angle_sequence)
    /\ results' = Append(results, counter)
    /\ pc' = "done"
    /\ UNCHANGED <<angle_sequence, fps, down_threshold, up_threshold, i,
                   counter, stage, angle_history, last_count_time, smoothed,
                   current_time, rep_log, call, ret, scores, OtherState>>

Next == InsufficientPoses \/ GetThresholds \/ Seed \/ CountRep \/ Return

Spec == Init /\ [][Next]_vars

(***************************************************************************)
(* The session of the specification's scenario, and every session that     *)
(* ends earlier in it.                                                     *)
(***************************************************************************)
Scenario ==
    <<170, 165, 150, 120, 95, 90, 95, 120, 150, 165, 170,
      165, 150, 120, 95, 90, 95, 120, 150, 165, 170>>

InitScenario ==
    /\ pc = "start"
    /\ angle_sequence \in {SubSeq(Scenario, 1, k) : k \in 0..Len(Scenario)}
    /\ fps \in FpsSet
    /\ Idle
    /\ NoCall

SpecScenario == InitScenario /\ [][Next]_vars

(***************************************************************************)
(* Sessions sampled from a sinusoid between 60 and 170 degrees:            *)
(* 115 + 55 cos(2 pi k / P), rounded to whole degrees, for a period of P   *)
(* samples, starting at any phase, N samples long.                         *)
(***************************************************************************)
MaxSineLen == 40
Periods == {8, 12, 16}

SineWave(P) ==
    CASE P = 8  -> <<170, 154, 115, 76, 60, 76, 115, 154>>
      [] P = 12 -> <<170, 163, 143, 115, 88, 67, 60, 67, 88, 115, 143, 163>>
      [] P = 16 -> <<170, 166, 154, 136, 115, 94, 76, 64,
                     60, 64, 76, 94, 115, 136, 154, 166>>

SineSession(P, phase, N) ==
    [k \in 1..N |-> SineWave(P)[((k - 1 + phase) % P) + 1]]

InitSine ==
    /\ pc = "start"
    /\ angle_sequence \in UNION {
            {SineSession(P, phase, N) :
                 phase \in 0..(P - 1), N \in 0..MaxSineLen} : P \in Periods}
    /\ fps \in FpsSet
    /\ Idle
    /\ NoCall

SpecSine == InitSine /\ [][Next]_vars

(***************************************************************************)
(* analyze_video called again on the same video.                           *)
(***************************************************************************)
MaxCalls == 2

\* The caller starts the next call; what the last call left behind is
\* garbage until the new call assigns it.
CallAgain ==
    /\ pc = "done"
    /\ Len(results) < MaxCalls
    /\ pc' = "start"
    /\ UNCHANGED <<angle_sequence, fps, down_threshold, up_threshold, i,
                   counter, stage, angle_history, last_count_time, smoothed,
                   current_time, rep_log, results, call, ret, scores, OtherState>>

NextRepeat == Next \/ CallAgain

SpecRepeat == Init /\ [][NextRepeat]_vars

(***************************************************************************)
(* The peak-based counters.  Angles that the code averages over a left and *)
(* a right joint are kept doubled (left + right), so they stay whole.      *)
(***************************************************************************)
MaxFrames == 5
MaxSeqLen == 10

\* key in angles, and angles.get(key, 0)
Has(angles, key) == key \in DOMAIN angles
Get(angles, key) == IF key \in DOMAIN angles THEN angles[key] ELSE 0

\* detect_exercise_type's hip_movement, knee_movement, elbow_movement: the
\* doubled averages of the frames that have a joint of the pair.
Movement(history, left, right) ==
    LET avg2(a) == Get(a, left) + Get(a, right)
        with == SelectSeq(history,
                    LAMBDA a : (Has(a, left) \/ Has(a, right)) /\ avg2(a) > 0)
    IN  [k \in DOMAIN with |-> avg2(with[k])]

\* max - min if there are more than 3 values, else 0 (doubled).
MovementRange(movement) ==
    IF Len(movement) > 3 THEN SeqMax(movement) - SeqMin(movement) ELSE 0

\* accurate_video_analyzer.detect_exercise_type
detect_exercise_type(history) ==
    IF Len(history) < 3 THEN "general_exercise"
    ELSE LET hip_range ==
                 MovementRange(Movement(history, "left_hip", "right_hip"))
             knee_range ==
                 MovementRange(Movement(history, "left_knee", "right_knee"))
             elbow_range ==
                 MovementRange(Movement(history, "left_elbow", "right_elbow"))
         IN  IF hip_range > 2 * 30 /\ knee_range < 2 * 40 /\ elbow_range < 2 * 20
             THEN "deadlift"
             ELSE IF hip_range > 2 * 25 /\ knee_range > 2 * 30 THEN "squat"
             ELSE IF elbow_range > 2 * 40 /\ knee_range < 2 * 20 THEN "push_up"
             ELSE IF knee_range > 2 * 25 /\ hip_range > 2 * 20 THEN "lunge"
             ELSE "general_exercise"

\* The hip angles tracked for deadlift, squat and lunge (doubled).
RECURSIVE HipAngles(_)
HipAngles(h) ==
    IF h = <<>> THEN <<>>
    ELSE LET angles == Head(h)
         IN  IF Has(angles, "left_hip") /\ Has(angles, "right_hip")
             THEN <<angles.left_hip + angles.right_hip>> \o HipAngles(Tail(h))
             ELSE IF Has(angles, "left_hip")
             THEN <<2 * angles.left_hip>> \o HipAngles(Tail(h))
             ELSE IF Has(angles, "right_hip")
             THEN <<2 * angles.right_hip>> \o HipAngles(Tail(h))
             ELSE HipAngles(Tail(h))

\* The elbow angles tracked for push_up (doubled).
RECURSIVE ElbowAngles(_)
ElbowAngles(h) ==
    IF h = <<>> THEN <<>>
    ELSE LET angles == Head(h)
         IN  IF Has(angles, "left_elbow") /\ Has(angles, "right_elbow")
             THEN <<angles.left_elbow + angles.right_elbow>>
                      \o ElbowAngles(Tail(h))
             ELSE IF Has(angles, "left_elbow")
             THEN <<2 * angles.left_elbow>> \o ElbowAngles(Tail(h))
             ELSE ElbowAngles(Tail(h))

\* The angles tracked otherwise (doubled): the loop ends at the first frame
\* that has one hip only or, without a left hip, a left knee.
RECURSIVE DefaultAngles(_)
DefaultAngles(h) ==
    IF h = <<>> THEN <<>>
    ELSE LET angles == Head(h)
         IN  IF Has(angles, "left_hip") /\ Has(angles, "right_hip")
             THEN <<angles.left_hip + angles.right_hip>>
                      \o DefaultAngles(Tail(h))
             ELSE IF Has(angles, "left_hip") THEN <<2 * angles.left_hip>>
             ELSE IF Has(angles, "left_knee") THEN <<2 * angles.left_knee>>
             ELSE DefaultAngles(Tail(h))

\* estimate_reps_from_angles' angle_sequence.
TrackedAngles(history) ==
    LET exercise_type == detect_exercise_type(history)
    IN  IF exercise_type \in {"deadlift", "squat", "lunge"}
        THEN HipAngles(history)
        ELSE IF exercise_type = "push_up" THEN ElbowAngles(history)
        ELSE DefaultAngles(history)

\* The moving average of window 3, each mean times 6: the sum of the k-th
\* value and its neighbours, times 6 / (how many they are).
MovingAverage(seq) ==
    [k \in DOMAIN seq |->
        LET start_idx == IF k - 1 > 1 THEN k - 1 ELSE 1
            end_idx == IF k + 1 < Len(seq) THEN k + 1 ELSE Len(seq)
        IN  SeqSum(SubSeq(seq, start_idx, end_idx))
                * (6 \div (end_idx - start_idx + 1))]

\* The local maxima above the mean and the local minima below it.
Peaks(sm) ==
    {k \in 2..(Len(sm) - 1) :
        /\ sm[k] > sm[k - 1]
        /\ sm[k] > sm[k + 1]
        /\ sm[k] * Len(sm) > SeqSum(sm)}

Valleys(sm) ==
    {k \in 2..(Len(sm) - 1) :
        /\ ~(sm[k] > sm[k - 1] /\ sm[k] > sm[k + 1])
        /\ sm[k] < sm[k - 1]
        /\ sm[k] < sm[k + 1]
        /\ sm[k] * Len(sm) < SeqSum(sm)}

Min2(a, b) == IF a <= b THEN a ELSE b
Max2(a, b) == IF a >= b THEN a ELSE b

\* len(angle_sequence) < 5 with 3 in place of 5.
TooFewAngles_3(angle_seq) == Len(angle_seq) < 3

\* len(angle_sequence) < 5: "Not enough angle data".
TooFewAngles(angle_seq) == Len(angle_seq) < 5

\* accurate_video_analyzer.estimate_reps_from_angles
estimate_reps_from_angles(history) ==
    IF Len(history) < 3 THEN 0
    ELSE LET angle_seq == TrackedAngles(history)
         IN  IF TooFewAngles(angle_seq) THEN 0
             ELSE LET smoothed_seq == MovingAverage(angle_seq)
                      peaks == Cardinality(Peaks(smoothed_seq))
                      valleys == Cardinality(Valleys(smoothed_seq))
                      reps == IF /\ peaks > 0
                                 /\ valleys > 0
                                 /\ Max2(peaks, valleys) - Min2(peaks, valleys) = 1
                              THEN Max2(peaks, valleys)
                              ELSE Min2(peaks, valleys)
                  IN  Max2(0, Min2(reps, 20))

\* What scipy.signal.find_peaks can return for n smoothed samples: library
\* code, of which the model keeps only that a peak has a lower sample on
\* either side, so there are at most (n - 1) / 2 of them.
PeakCounts(n) == 0..((n - 1) \div 2)

\* research_based_analyzer.RepCounter.count_reps: len(angle_seq) < 10
TooShortForRepCounter(angle_seq) == Len(angle_seq) < 10

\* direct_mediapipe_analyzer.count_reps_for_exercise: len(angle_seq) < 8
TooShortForExercise(angle_seq) == Len(angle_seq) < 8

\* count_reps_for_exercise's angle_seq.
ExerciseAngles(exercise_type, hip_angles, knee_angles, elbow_angles) ==
    IF exercise_type = "squat" THEN knee_angles
    ELSE IF exercise_type = "deadlift" THEN hip_angles
    ELSE IF exercise_type = "push_up" THEN elbow_angles
    ELSE IF hip_angles # <<>> THEN hip_angles ELSE knee_angles

\* The inputs.
FrameTop ==
    [left_hip |-> 170, right_hip |-> 170, left_knee |-> 170,
     right_knee |-> 170, left_elbow |-> 170, right_elbow |-> 170]
FrameSquat ==
    [left_hip |-> 90, right_hip |-> 90, left_knee |-> 90,
     right_knee |-> 90, left_elbow |-> 170, right_elbow |-> 170]
FrameElbows == [left_elbow |-> 90, right_elbow |-> 90]
FrameHips == [left_hip |-> 90, right_hip |-> 90]
FrameLeftHip == [left_hip |-> 120]
FrameLeftKnee == [left_knee |-> 100]
Frames ==
    {FrameTop, FrameSquat, FrameElbows, FrameHips, FrameLeftHip, FrameLeftKnee}

Zigzag(n) == [k \in 1..n |-> IF k % 2 = 1 THEN 170 ELSE 90]
ExerciseTypes == {"squat", "deadlift", "push_up", "general_exercise"}

Calls ==
    {[fn |-> "estimate_reps_from_angles", angle_history |-> h] :
         h \in UNION {[1..n -> Frames] : n \in 0..MaxFrames}}
    \cup {[fn |-> "count_reps", angle_sequence |-> Zigzag(n)] :
              n \in 0..MaxSeqLen}
    \cup {[fn |-> "count_reps_for_exercise", exercise_type |-> e,
           hip_angles |-> Zigzag(nh), knee_angles |-> Zigzag(nk),
           elbow_angles |-> Zigzag(ne)] :
              e \in ExerciseTypes, nh \in 0..MaxSeqLen, nk \in 0..MaxSeqLen,
              ne \in 0..MaxSeqLen}

InitPeak ==
    /\ pc = "idle"
    /\ angle_sequence = <<>>
    /\ fps = 30
    /\ Idle
    /\ call \in Calls
    /\ ret = <<>>
    /\ scores = <<>>
    /\ NoOtherState

Session ==
    <<pc, angle_sequence, fps, down_threshold, up_threshold, i, counter,
      stage, angle_history, last_count_time, smoothed, current_time,
      rep_log, results>>

EstimateRepsFromAngles ==
    /\ call.fn = "estimate_reps_from_angles"
    /\ ret = <<>>
    /\ ret' = <<estimate_reps_from_angles(call.angle_history)>>
    /\ UNCHANGED <<Session, call, scores, OtherState>>

RepCounterCountReps ==
    /\ call.fn = "count_reps"
    /\ ret = <<>>
    /\ IF TooShortForRepCounter(call.angle_sequence)
       THEN ret' = <<0>>
       ELSE \E peaks, valleys \in PeakCounts(Len(call.angle_sequence)) :
                ret' = <<Min2(peaks, valleys)>>
    /\ UNCHANGED <<Session, call, scores, OtherState>>

CountRepsForExercise ==
    /\ call.fn = "count_reps_for_exercise"
    /\ ret = <<>>
    /\ LET angle_seq == ExerciseAngles(call.exercise_type, call.hip_angles,
                                       call.knee_angles, call.elbow_angles)
       IN  IF TooShortForExercise(angle_seq)
           THEN ret' = <<0>>
           ELSE \E peaks, valleys \in PeakCounts(Len(angle_seq)) :
                    ret' = IF call.exercise_type = "squat"
                           THEN <<Max2(valleys, peaks)>>
                           ELSE <<Min2(peaks, valleys)>>
    /\ UNCHANGED <<Session, call, scores, OtherState>>

NextPeak == EstimateRepsFromAngles \/ RepCounterCountReps \/ CountRepsForExercise

SpecPeak == InitPeak /\ [][NextPeak]_vars

(***************************************************************************)
(* research_based_analyzer.ExerciseClassifier.  A frame maps joints to     *)
(* angles; the per-frame averages of a left and a right joint, and the     *)
(* ROMs taken from them, are kept doubled.                                 *)
(***************************************************************************)
\* EXERCISE_SIGNATURES, in the order the dict lists them, with the entries
\* classify reads.
EXERCISE_SIGNATURES ==
    [deadlift |-> [hip_rom |-> <<40, 90>>, knee_rom |-> <<0, 30>>,
                   primary_joint |-> "hip"],
     squat |-> [hip_rom |-> <<40, 100>>, knee_rom |-> <<40, 110>>,
                primary_joint |-> "both"],
     push_up |-> [elbow_rom |-> <<40, 140>>, primary_joint |-> "elbow"]]

SignatureOrder == <<"deadlift", "squat", "push_up">>

\* The averages of the frames that have both joints of a pair (doubled).
PairAngles(angle_data, left, right) ==
    LET with == SelectSeq(angle_data, LAMBDA f : Has(f, left) /\ Has(f, right))
    IN  [k \in DOMAIN with |-> with[k][left] + with[k][right]]

\* max(angles) - min(angles) if angles else 0
RomOf(angles) == IF angles # <<>> THEN SeqMax(angles) - SeqMin(angles) ELSE 0

\* hip_rom, knee_rom, elbow_rom (doubled).
Roms(angle_data) ==
    [hip_rom |-> RomOf(PairAngles(angle_data, "left_hip", "right_hip")),
     knee_rom |-> RomOf(PairAngles(angle_data, "left_knee", "right_knee")),
     elbow_rom |-> RomOf(PairAngles(angle_data, "left_elbow", "right_elbow"))]

Abs(x) == IF x < 0 THEN -x ELSE x

\* The points of one joint of one signature: 3 inside the interval, else 1
\* within 20 degrees of the interval's mean (hip and knee only), else 0.
JointPoints(signature, key, rom) ==
    IF key \notin DOMAIN signature THEN 0
    ELSE LET lo == signature[key][1]
             hi == signature[key][2]
         IN  IF 2 * lo <= rom /\ rom <= 2 * hi THEN 3
             ELSE IF key # "elbow_rom" /\ Abs(rom - (lo + hi)) < 2 * 20 THEN 1
             ELSE 0

\* scores = {} kept from the call before instead.
NewScores_kept ==
    IF DOMAIN scores = {} THEN [ex \in DOMAIN EXERCISE_SIGNATURES |-> 0]
    ELSE scores

\* scores = {}; every signature's score starts at 0.
NewScores == [ex \in DOMAIN EXERCISE_SIGNATURES |-> 0]

\* The scoring loop.
ScoreAll(roms) ==
    [ex \in DOMAIN EXERCISE_SIGNATURES |->
        NewScores[ex]
            + JointPoints(EXERCISE_SIGNATURES[ex], "hip_rom", roms.hip_rom)
            + JointPoints(EXERCISE_SIGNATURES[ex], "knee_rom", roms.knee_rom)
            + JointPoints(EXERCISE_SIGNATURES[ex], "elbow_rom", roms.elbow_rom)]

\* max(scores.items(), key=lambda x: x[1]): the first of the highest.
BestMatch(sc) ==
    LET k == CHOOSE k \in DOMAIN SignatureOrder :
                 /\ \A j \in DOMAIN SignatureOrder :
                        sc[SignatureOrder[j]] <= sc[SignatureOrder[k]]
                 /\ \A j \in 1..(k - 1) :
                        sc[SignatureOrder[j]] < sc[SignatureOrder[k]]
    IN  SignatureOrder[k]

\* best_match[1] >= 3 with no floor.
ReachesFloor_any(score) == score >= 0

\* best_match[1] >= 3
ReachesFloor(score) == score >= 3

\* The classifier's inputs: frames whose joints all move between a rest
\* angle of 20 degrees and 20 + ROM, with or without elbows.
FrameOf(hip, knee, elbow, elbows) ==
    IF elbows
    THEN [left_hip |-> hip, right_hip |-> hip, left_knee |-> knee,
          right_knee |-> knee, left_elbow |-> elbow, right_elbow |-> elbow]
    ELSE [left_hip |-> hip, right_hip |-> hip,
          left_knee |-> knee, right_knee |-> knee]

DataOf(n, hip_rom, knee_rom, elbow_rom, elbows) ==
    [k \in 1..n |->
        IF k = 2
        THEN FrameOf(20 + hip_rom, 20 + knee_rom, 20 + elbow_rom, elbows)
        ELSE FrameOf(20, 20, 20, elbows)]

HipRoms == {0, 20, 39, 40, 70, 90, 91, 100, 101}
KneeRoms == {0, 10, 30, 31, 34, 35, 39, 40, 110, 111}
ElbowRoms == {0, 5, 39, 40, 120, 140, 141}
DataLens == {4, 5}

ClassifyInputs ==
    {DataOf(n, h, k, e, b) :
        n \in DataLens, h \in HipRoms, k \in KneeRoms, e \in ElbowRoms,
        b \in BOOLEAN}

\* One call of classify.
InitClassify ==
    /\ pc = "idle"
    /\ angle_sequence = <<>>
    /\ fps = 30
    /\ Idle
    /\ call \in {<<[fn |-> "classify", angle_data |-> d]>> : d \in ClassifyInputs}
    /\ ret = <<>>
    /\ scores = <<>>
    /\ NoOtherState

\* ExerciseClassifier.classify: the next call of the script.
Classify ==
    /\ Len(ret) < Len(call)
    /\ LET angle_data == call[Len(ret) + 1].angle_data
       IN  IF Len(angle_data) < 5
           THEN /\ ret' = Append(ret, "unknown")
                /\ UNCHANGED scores
           ELSE \E sc \in {ScoreAll(Roms(angle_data))} :
                    /\ scores' = sc
                    /\ ret' = Append(ret,
                           IF ReachesFloor(sc[BestMatch(sc)])
                           THEN BestMatch(sc) ELSE "general_exercise")
    /\ UNCHANGED <<Session, call, OtherState>>

NextClassify == Classify

SpecClassify == InitClassify /\ [][NextClassify]_vars

\* Up to MaxClassifyCalls calls in a row on sessions drawn from a few.
MaxClassifyCalls == 3

RepeatInputs ==
    {DataOf(5, 70, 10, 5, TRUE), DataOf(6, 70, 10, 5, TRUE),
     DataOf(4, 70, 10, 5, TRUE), DataOf(5, 20, 10, 120, TRUE),
     DataOf(5, 0, 32, 5, TRUE), DataOf(5, 50, 50, 120, TRUE)}

InitClassifyRepeat ==
    /\ pc = "idle"
    /\ angle_sequence = <<>>
    /\ fps = 30
    /\ Idle
    /\ call \in UNION {[1..n -> {[fn |-> "classify", angle_data |-> d] :
                                    d \in RepeatInputs}] :
                          n \in 1..MaxClassifyCalls}
    /\ ret = <<>>
    /\ scores = <<>>
    /\ NoOtherState

SpecClassifyRepeat == InitClassifyRepeat /\ [][NextClassify]_vars

(***************************************************************************)
(* The ratio-based analyzers: good_gym_analyzer.analyze_video up to the     *)
(* choice of the tracked joint, direct_mediapipe_analyzer.analyze_video and *)
(* fixed_mediapipe_analyzer.analyze_video_with_mediapipe.  A session is the *)
(* hip, knee and elbow angle of every detected pose, in whole degrees.      *)
(***************************************************************************)
\* hip_rom / (knee_rom + 1) > 1.5 with 1 in place of 1.5.
HipDominant_1(hip_rom, knee_rom) == hip_rom > knee_rom + 1

\* hip_rom / (knee_rom + 1) > 1.5
HipDominant(hip_rom, knee_rom) == 2 * hip_rom > 3 * (knee_rom + 1)

\* `if exercise_type:' is false for None and for the empty string.
Given(exercise_type) == exercise_type \notin {None, ""}

\* good_gym's auto-detection: the label, or "raise" where it raises.
AutoDetect(hip_rom, knee_rom, elbow_rom) ==
    LET max_rom == Max2(hip_rom, Max2(knee_rom, elbow_rom))
    IN  IF max_rom < 30 THEN "raise"
        ELSE IF knee_rom > 90 /\ hip_rom > 90
        THEN IF HipDominant(hip_rom, knee_rom) THEN "deadlift" ELSE "squat"
        ELSE IF elbow_rom = max_rom /\ elbow_rom > 45 THEN "push_up"
        ELSE IF hip_rom >= knee_rom /\ HipDominant(hip_rom, knee_rom)
        THEN "deadlift"
        ELSE IF knee_rom > 30 THEN "squat"
        ELSE "raise"

\* The joint tracked for an exercise, whatever the hint is.
TrackedJoint_knee(exercise_type) == "knee"

\* The joint tracked for an exercise.
TrackedJoint(exercise_type) ==
    IF exercise_type = "squat" THEN "knee"
    ELSE IF exercise_type = "deadlift" THEN "hip"
    ELSE "elbow"

\* good_gym analyze_video from the pose count to the tracked joint: raises
\* on fewer than 5 poses, follows a given exercise_type or auto-detects one.
SelectJoint ==
    /\ pc = "poses"
    /\ LET hip_rom == SeqMax(call.all_angles.hip) - SeqMin(call.all_angles.hip)
           knee_rom == SeqMax(call.all_angles.knee) - SeqMin(call.all_angles.knee)
           elbow_rom ==
               SeqMax(call.all_angles.elbow) - SeqMin(call.all_angles.elbow)
           chosen == IF Given(call.exercise_type)
                     THEN IF call.exercise_type \in {"squat", "deadlift", "push_up"}
                          THEN call.exercise_type
                          ELSE "raise"
                     ELSE AutoDetect(hip_rom, knee_rom, elbow_rom)
       IN  IF call.pose_count < MinPoses \/ chosen = "raise"
           THEN /\ pc' = "raised"
                /\ UNCHANGED <<angle_sequence, call>>
           ELSE /\ pc' = "start"
                /\ call' = [call EXCEPT !.exercise_type = chosen]
                /\ angle_sequence' = call.all_angles[TrackedJoint(chosen)]
    /\ UNCHANGED <<fps, down_threshold, up_threshold, i, counter, stage,
                   angle_history, last_count_time, smoothed, current_time,
                   rep_log, results, ret, scores, OtherState>>

\* direct_mediapipe's classification.
direct_classify(hip_rom, knee_rom, elbow_rom) ==
    IF elbow_rom > 45 /\ hip_rom < 30 THEN "push_up"
    ELSE IF hip_rom > 30 /\ HipDominant(hip_rom, knee_rom) THEN "deadlift"
    ELSE IF hip_rom > 25 /\ knee_rom > 30 THEN "squat"
    ELSE "general_exercise"

\* max(angles) - min(angles) if len(angles) > 3 else 0
RomIfMoreThan3(angles) ==
    IF Len(angles) > 3 THEN SeqMax(angles) - SeqMin(angles) ELSE 0

fallback_result ==
    [exercise_type |-> "general_exercise", rep_count |-> 0,
     analysis_method |-> "fallback"]

\* direct_mediapipe_analyzer.analyze_video.  The record returned keeps
\* exercise_type, rep_count and analysis_method.
DirectAnalyze ==
    /\ call.fn = "direct_mediapipe"
    /\ ret = <<>>
    /\ IF call.pose_count < 5
       THEN ret' = <<fallback_result>>
       ELSE LET ex == direct_classify(RomIfMoreThan3(call.hip_angles),
                                      RomIfMoreThan3(call.knee_angles),
                                      RomIfMoreThan3(call.elbow_angles))
                angle_seq == ExerciseAngles(ex, call.hip_angles,
                                            call.knee_angles, call.elbow_angles)
            IN  IF TooShortForExercise(angle_seq)
                THEN ret' = <<[exercise_type |-> ex, rep_count |-> 0,
                               analysis_method |-> "direct_mediapipe"]>>
                ELSE \E peaks, valleys \in PeakCounts(Len(angle_seq)) :
                         ret' = <<[exercise_type |-> ex,
                                   rep_count |-> IF ex = "squat"
                                                 THEN Max2(valleys, peaks)
                                                 ELSE Min2(peaks, valleys),
                                   analysis_method |-> "direct_mediapipe"]>>
    /\ UNCHANGED <<Session, call, scores, OtherState>>

\* fixed_mediapipe's classification.
fixed_classify(hip_rom, knee_rom, elbow_rom) ==
    IF elbow_rom > 45 /\ hip_rom < 30 THEN "push_up"
    ELSE IF hip_rom > 30 /\ HipDominant(hip_rom, knee_rom) THEN "deadlift"
    ELSE IF hip_rom > 25 /\ knee_rom > 30 THEN "squat"
    ELSE "general_exercise"

\* An exception, and a value returned.
Raised == [raise |-> TRUE]
Returned(v) == [raise |-> FALSE, value |-> v]

\* fixed_mediapipe's count_reps_scipy: the outcomes it can have.  It raises
\* on fewer than 8 angles, on an exercise that is not squat, deadlift or
\* push_up, and on a count of 0.
count_reps_scipy(angle_seq, exercise_type) ==
    IF Len(angle_seq) < 8 THEN {Raised}
    ELSE IF exercise_type \notin {"squat", "deadlift", "push_up"} THEN {Raised}
    ELSE LET counts ==
                 IF exercise_type = "squat" THEN PeakCounts(Len(angle_seq))
                 ELSE {Min2(peaks, valleys) :
                          peaks \in PeakCounts(Len(angle_seq)),
                          valleys \in PeakCounts(Len(angle_seq))}
         IN  {IF reps = 0 THEN Raised ELSE Returned(reps) : reps \in counts}

IDEAL_RANGES ==
    [squat |-> [knee |-> <<80, 110>>, hip |-> <<40, 80>>],
     deadlift |-> [hip |-> <<30, 60>>, knee |-> <<150, 180>>],
     push_up |-> [elbow |-> <<70, 100>>]]

\* The score of one joint: 100 with the least angle inside the ideal range,
\* else 100 less 2 per degree to the nearer bound, at least 0.
ComponentScore(angles, ideal) ==
    LET least == SeqMin(angles)
        deviation == Min2(Abs(least - ideal[1]), Abs(least - ideal[2]))
    IN  IF ideal[1] <= least /\ least <= ideal[2] THEN 100
        ELSE Max2(0, 100 - deviation * 2)

\* fixed_mediapipe's calculate_real_form_score: the mean of the component
\* scores as a fraction, or an exception.
calculate_real_form_score(exercise_type, hip_angles, knee_angles, elbow_angles) ==
    IF exercise_type \notin DOMAIN IDEAL_RANGES THEN Raised
    ELSE LET ideal == IDEAL_RANGES[exercise_type]
             part(joint, angles) ==
                 IF joint \in DOMAIN ideal /\ angles # <<>>
                 THEN <<ComponentScore(angles, ideal[joint])>>
                 ELSE <<>>
             parts == part("knee", knee_angles) \o part("hip", hip_angles)
                          \o part("elbow", elbow_angles)
         IN  IF parts = <<>> THEN Raised
             ELSE Returned(Rat(SeqSum(parts), Len(parts)))

\* fixed_mediapipe_analyzer.analyze_video_with_mediapipe, and __main__, which
\* exits with status 1 and no result when it raises.
FixedAnalyze ==
    /\ call.fn = "fixed_mediapipe"
    /\ ret = <<>>
    /\ IF call.pose_count < 5
       THEN ret' = <<[error |-> "exit 1"]>>
       ELSE LET ex == fixed_classify(RomOf(call.hip_angles),
                                     RomOf(call.knee_angles),
                                     RomOf(call.elbow_angles))
                angle_seq ==
                    IF ex = "squat" THEN call.knee_angles
                    ELSE IF ex = "deadlift" THEN call.hip_angles
                    ELSE IF ex = "push_up" THEN call.elbow_angles
                    ELSE IF call.hip_angles # <<>> THEN call.hip_angles
                    ELSE call.knee_angles
                form_score ==
                    calculate_real_form_score(ex, call.hip_angles,
                        call.knee_angles, call.elbow_angles)
            IN  \E rep_count \in count_reps_scipy(angle_seq, ex) :
                    IF rep_count.raise \/ form_score.raise
                    THEN ret' = <<[error |-> "exit 1"]>>
                    ELSE ret' = <<[exercise_type |-> ex,
                                   rep_count |-> rep_count.value,
                                   form_score |-> form_score.value,
                                   analysis_method |-> "mediapipe_fixed"]>>
    /\ UNCHANGED <<Session, call, scores, OtherState>>

\* The sessions: every joint swings between 20 degrees and 20 + its ROM.
Swing(n, rom) == [k \in 1..n |-> IF k % 2 = 0 THEN 20 + rom ELSE 20]
SessionLens == {4, 5, 8}
SessionHipRoms == {20, 28, 40, 100, 150}
SessionKneeRoms == {10, 30, 40, 95, 99}
SessionElbowRoms == {20, 50, 160}
Hints == {None, "", "squat", "deadlift", "push_up", "lunge"}

InitAnalyze ==
    /\ angle_sequence = <<>>
    /\ fps \in FpsSet
    /\ Idle
    /\ ret = <<>>
    /\ scores = <<>>
    /\ NoOtherState
    /\ \E n \in SessionLens, h \in SessionHipRoms, k \in SessionKneeRoms,
          e \in SessionElbowRoms :
           \/ /\ pc = "poses"
              /\ \E hint \in Hints :
                     call = [fn |-> "good_gym", exercise_type |-> hint,
                             pose_count |-> n,
                             all_angles |-> [hip |-> Swing(n, h),
                                             knee |-> Swing(n, k),
                                             elbow |-> Swing(n, e)]]
           \/ /\ pc = "idle"
              /\ fps = 30
              /\ \E fn \in {"direct_mediapipe", "fixed_mediapipe"} :
                     call = [fn |-> fn, pose_count |-> n,
                             hip_angles |-> Swing(n, h),
                             knee_angles |-> Swing(n, k),
                             elbow_angles |-> Swing(n, e)]

NextAnalyze ==
    \/ SelectJoint
    \/ GetThresholds
    \/ Seed
    \/ CountRep
    \/ Return
    \/ DirectAnalyze
    \/ FixedAnalyze

SpecAnalyze == InitAnalyze /\ [][NextAnalyze]_vars

(***************************************************************************)
(* good_gym_analyzer.calculate_form_score.                                 *)
(***************************************************************************)
MaxFormLen == 3
FormAngles == {50, 85, 95, 115, 125, 145, 155, 165}

\* The generic score with a lowest tier of 50.
GenericScore_low(rom) ==
    IF rom > 60 THEN 95
    ELSE IF rom > 45 THEN 85
    ELSE IF rom > 30 THEN 75
    ELSE 50

\* Generic ROM-based score.
GenericScore(rom) ==
    IF rom > 60 THEN 95
    ELSE IF rom > 45 THEN 85
    ELSE IF rom > 30 THEN 75
    ELSE 60

\* The squat's consistency deduction: 10 when two or more angles are below
\* 120 and their np.std is above 15.
InconsistentDepth(angles) ==
    LET bottom_angles == SelectSeq(angles, LAMBDA a : a < 120)
    IN  /\ Len(bottom_angles) > 1
        /\ VarN2(bottom_angles) > 15 * 15 * Len(bottom_angles) * Len(bottom_angles)

calculate_form_score(exercise_type, angles) ==
    LET min_angle == SeqMin(angles)
        max_angle == SeqMax(angles)
        rom == max_angle - min_angle
    IN  IF exercise_type = "squat"
        THEN Max2(60, 100
                 - (IF min_angle > 110 THEN 20 ELSE IF min_angle > 90 THEN 10 ELSE 0)
                 - (IF max_angle < 160 THEN 15 ELSE 0)
                 - (IF InconsistentDepth(angles) THEN 10 ELSE 0))
        ELSE IF exercise_type = "push_up"
        THEN Max2(60, 100
                 - (IF min_angle > 120 THEN 25 ELSE IF min_angle > 100 THEN 10 ELSE 0)
                 - (IF max_angle < 160 THEN 15 ELSE 0))
        ELSE IF exercise_type = "deadlift"
        THEN Max2(60, 100
                 - (IF min_angle > 80 THEN 20 ELSE 0)
                 - (IF max_angle < 150 THEN 15 ELSE 0))
        ELSE GenericScore(rom)

InitFormScore ==
    /\ pc = "idle"
    /\ angle_sequence = <<>>
    /\ fps = 30
    /\ Idle
    /\ call \in {[fn |-> "calculate_form_score", exercise_type |-> e,
                  angles |-> a] :
                    e \in ExerciseTypes,
                    a \in UNION {[1..n -> FormAngles] : n \in 1..MaxFormLen}}
    /\ ret = <<>>
    /\ scores = <<>>
    /\ NoOtherState

CalculateFormScore ==
    /\ call.fn = "calculate_form_score"
    /\ ret = <<>>
    /\ ret' = <<calculate_form_score(call.exercise_type, call.angles)>>
    /\ UNCHANGED <<Session, call, scores, OtherState>>

NextFormScore == CalculateFormScore

SpecFormScore == InitFormScore /\ [][NextFormScore]_vars

(***************************************************************************)
(* ai_form_analyzer.AIFormAnalyzer: detect_compensations and                *)
(* _calculate_form_score.  Angles, differences and thresholds are kept in   *)
(* hundredths of a degree, so that 0.03 is 3 and 15 is 1500.                *)
(***************************************************************************)
\* The exercises of exercise_templates.
ExerciseTemplates == {"squat", "bicep_curl", "push_up", "lunge", "deadlift"}

\* compensation_patterns, for the patterns detect_compensations uses.
compensation_patterns ==
    [knee_valgus |->
         [threshold |-> 1500,
          severity_levels |-> [mild |-> 1000, moderate |-> 2000, severe |-> 3000]],
     hip_hiking |->
         [threshold |-> 3,
          severity_levels |-> [mild |-> 2, moderate |-> 5, severe |-> 8]],
     shoulder_elevation |->
         [threshold |-> 5,
          severity_levels |-> [mild |-> 3, moderate |-> 7, severe |-> 10]]]

\* AIFormAnalyzer._get_compensation_severity
get_compensation_severity(value, compensation_type) ==
    LET thresholds == compensation_patterns[compensation_type].severity_levels
    IN  IF value >= thresholds.severe THEN "severe"
        ELSE IF value >= thresholds.moderate THEN "moderate"
        ELSE "mild"

\* One bilateral check of detect_compensations: the compensation appended,
\* if any.
BilateralCheck(angles, left, right, compensation_type) ==
    IF Has(angles, left) /\ Has(angles, right)
    THEN LET diff == Abs(angles[left] - angles[right])
         IN  IF diff > compensation_patterns[compensation_type].threshold
             THEN <<[type |-> compensation_type,
                     severity |-> get_compensation_severity(diff, compensation_type),
                     value |-> diff]>>
             ELSE <<>>
    ELSE <<>>

\* AIFormAnalyzer.detect_compensations
detect_compensations(angles, exercise_type) ==
    IF exercise_type \notin ExerciseTemplates THEN <<>>
    ELSE BilateralCheck(angles, "left_knee", "right_knee", "knee_valgus")
             \o BilateralCheck(angles, "left_hip", "right_hip", "hip_hiking")
             \o BilateralCheck(angles, "left_shoulder", "right_shoulder",
                               "shoulder_elevation")

\* The deduction of a compensation, 10 whatever its severity.
SeverityPenalty_flat(severity) == 10

\* The deduction of a compensation.
SeverityPenalty(severity) ==
    IF severity = "severe" THEN 25
    ELSE IF severity = "moderate" THEN 15
    ELSE 5

\* The exercise-specific deduction: a squat's knees above 90 degrees on
\* average (20) or below 80 (10), a push-up's elbows above 120 (20).
DepthPenalty(angles, exercise_type) ==
    IF exercise_type = "squat"
    THEN IF Has(angles, "left_knee") /\ Has(angles, "right_knee")
         THEN IF angles.left_knee + angles.right_knee > 2 * 9000 THEN 20
              ELSE IF angles.left_knee + angles.right_knee < 2 * 8000 THEN 10
              ELSE 0
         ELSE 0
    ELSE IF exercise_type = "push_up"
    THEN IF /\ Has(angles, "left_elbow")
            /\ Has(angles, "right_elbow")
            /\ angles.left_elbow + angles.right_elbow > 2 * 12000
         THEN 20
         ELSE 0
    ELSE 0

\* AIFormAnalyzer._calculate_form_score
ai_calculate_form_score(angles, compensations, exercise_type) ==
    IF exercise_type \notin ExerciseTemplates THEN 75
    ELSE LET penalties ==
                 [k \in DOMAIN compensations |->
                     SeverityPenalty(compensations[k].severity)]
             base_score == 100 - SeqSum(penalties)
                               - DepthPenalty(angles, exercise_type)
         IN  Max2(0, Min2(100, base_score))

\* The frames analysed: the left knee at 85 or 70 degrees, the right joints
\* off by the given differences, elbows at 130, shoulders seen or not.
FormFrame(left_knee, knee_diff, hip_diff, shoulder_diff, shoulders) ==
    IF shoulders
    THEN [left_knee |-> left_knee, right_knee |-> left_knee + knee_diff,
          left_hip |-> 9000 + hip_diff, right_hip |-> 9000,
          left_elbow |-> 13000, right_elbow |-> 13000,
          left_shoulder |-> 4500, right_shoulder |-> 4500 + shoulder_diff]
    ELSE [left_knee |-> left_knee, right_knee |-> left_knee + knee_diff,
          left_hip |-> 9000 + hip_diff, right_hip |-> 9000,
          left_elbow |-> 13000, right_elbow |-> 13000]

FormFrames ==
    {FormFrame(8500, kd, hd, 12, sh) :
        kd \in {0, 1500, 1501, 2000, 3000}, hd \in {0, 4, 9}, sh \in BOOLEAN}
    \cup {FormFrame(7000, 0, hd, 6, sh) : hd \in {0, 4, 9}, sh \in BOOLEAN}

MaxFormCalls == 2

\* Up to MaxFormCalls frames of one exercise analysed in a row.
InitForm ==
    /\ pc = "idle"
    /\ angle_sequence = <<>>
    /\ fps = 30
    /\ Idle
    /\ \E e \in {"squat", "push_up", "general"} :
           call \in UNION {[1..n -> {[fn |-> "analyze_form", exercise_type |-> e,
                                      angles |-> a] : a \in FormFrames}] :
                              n \in 1..MaxFormCalls}
    /\ ret = <<>>
    /\ scores = <<>>
    /\ NoOtherState

\* AIFormAnalyzer.analyze_form on the next frame, from the joint angles on.
AnalyzeForm ==
    /\ Len(ret) < Len(call)
    /\ call[1].fn = "analyze_form"
    /\ LET frame == call[Len(ret) + 1]
           compensations == detect_compensations(frame.angles, frame.exercise_type)
       IN  ret' = Append(ret,
                      [compensations |-> compensations,
                       overall_score |->
                           ai_calculate_form_score(frame.angles, compensations,
                                                   frame.exercise_type)])
    /\ UNCHANGED <<Session, call, scores, OtherState>>

NextForm == AnalyzeForm

SpecForm == InitForm /\ [][NextForm]_vars

(***************************************************************************)
(* The angle routines: good_gym_analyzer.calculate_angle_from_lm,           *)
(* AdvancedMediaPipeAnalyzer.calculate_angle and                            *)
(* AIFormAnalyzer._calculate_angle_3d.  A result is a NaN or a number of    *)
(* degrees within lo..hi: 90 when the dot product is 0, below 90 when it is *)
(* positive and above 90 when it is negative.  None of the routines has a   *)
(* value that stands for an invalid angle.                                  *)
(***************************************************************************)
Dot(u, v) == SeqSum([k \in DOMAIN u |-> u[k] * v[k]])

\* The vector from the vertex b to the point a.
Minus(a, b) == [k \in DOMAIN a |-> a[k] - b[k]]

NaN == [kind |-> "nan", lo |-> 0, hi |-> 0]

Degrees(lo, hi) == [kind |-> "degrees", lo |-> lo, hi |-> hi]

\* degrees(arccos(clip(cosine, -1, 1))) for a cosine of the sign of dot.
ArcCos(dot) ==
    IF dot = 0 THEN Degrees(90, 90)
    ELSE IF dot > 0 THEN Degrees(0, 90)
    ELSE Degrees(90, 180)

\* The quotient with a small number added to the product of the norms: the
\* divisor is never 0, and the cosine has the sign of the dot product.
AngleWithEpsilon(ba, bc) == ArcCos(Dot(ba, bc))

\* The quotient by the product of the norms alone: 0.0 / 0.0 is a NaN (and
\* a warning, no exception), which clip, arccos and degrees hand on.
AngleWithoutEpsilon(ba, bc) ==
    IF Dot(ba, ba) * Dot(bc, bc) = 0 THEN NaN ELSE ArcCos(Dot(ba, bc))

\* good_gym_analyzer.calculate_angle_from_lm
calculate_angle_from_lm(a, b, c) == AngleWithEpsilon(Minus(a, b), Minus(c, b))

\* AdvancedMediaPipeAnalyzer.calculate_angle
calculate_angle(point1, point2, point3) ==
    AngleWithoutEpsilon(Minus(point1, point2), Minus(point3, point2))

\* AIFormAnalyzer._calculate_angle_3d
calculate_angle_3d(point1, point2, point3) ==
    AngleWithEpsilon(Minus(point1, point2), Minus(point3, point2))

\* Landmarks on a small grid, with and without a z coordinate.
Points2D == {<<x, y>> : x \in 0..1, y \in 0..1}
Points3D == {<<x, y, z>> : x \in 0..1, y \in 0..1, z \in 0..1}

AngleCalls ==
    {[fn |-> f, a |-> a, b |-> b, c |-> c] :
        f \in {"calculate_angle_from_lm", "calculate_angle"},
        a \in Points2D, b \in Points2D, c \in Points2D}
    \cup {[fn |-> "calculate_angle_3d", a |-> a, b |-> b, c |-> c] :
             a \in Points3D, b \in Points3D, c \in Points3D}

InitAngle ==
    /\ pc = "idle"
    /\ angle_sequence = <<>>
    /\ fps = 30
    /\ Idle
    /\ call \in AngleCalls
    /\ ret = <<>>
    /\ scores = <<>>
    /\ NoOtherState

\* One call of an angle routine.
CalculateAngle ==
    /\ ret = <<>>
    /\ call.fn \in {"calculate_angle_from_lm", "calculate_angle",
                    "calculate_angle_3d"}
    /\ ret' = <<IF call.fn = "calculate_angle_from_lm"
                THEN calculate_angle_from_lm(call.a, call.b, call.c)
                ELSE IF call.fn = "calculate_angle"
                THEN calculate_angle(call.a, call.b, call.c)
                ELSE calculate_angle_3d(call.a, call.b, call.c)>>
    /\ UNCHANGED <<Session, call, scores, OtherState>>

NextAngle == CalculateAngle

SpecAngle == InitAngle /\ [][NextAngle]_vars

(***************************************************************************)
(* The smoothers on floating-point numbers.  np.mean and sum(...) / n add   *)
(* the values from left to right and divide, rounding every result to the   *)
(* nearest float, ties to even.  A float has MantissaBits significant bits  *)
(* here (53 in the source); the fractions rounded lie between 4 and 2^12.   *)
(***************************************************************************)
MantissaBits == 5

RECURSIVE Pow2(_)
Pow2(k) == IF k = 0 THEN 1 ELSE 2 * Pow2(k - 1)

\* Four times the distance between the floats around the fraction x.
UlpTimes4(x) ==
    Pow2(CHOOSE e \in 0..10 :
             /\ Pow2(MantissaBits - 1) * Pow2(e) * x.d <= 4 * x.n
             /\ 4 * x.n < Pow2(MantissaBits) * Pow2(e) * x.d)

\* The float nearest to the fraction x, the one with the even mantissa of
\* two equally near.
FloatRound(x) ==
    IF x.n = 0 THEN Rat(0, 1)
    ELSE LET ulp4 == UlpTimes4(x)
             unit == ulp4 * x.d
             mantissa == (4 * x.n) \div unit
             rest == 4 * x.n - mantissa * unit
             up == \/ 2 * rest > unit
                   \/ 2 * rest = unit /\ mantissa % 2 = 1
         IN  Rat((IF up THEN mantissa + 1 ELSE mantissa) * ulp4, 4)

FloatAdd(x, y) == FloatRound(Rat(x.n * y.d + y.n * x.d, x.d * y.d))

\* The sum of the values of s, added from left to right.
RECURSIVE FloatSum(_)
FloatSum(s) ==
    IF s = <<>> THEN Rat(0, 1)
    ELSE FloatAdd(FloatSum(SubSeq(s, 1, Len(s) - 1)), Rat(s[Len(s)], 1))

\* The sum without the division.
FloatMean_sum(s) == FloatSum(s)

\* np.mean(s), and sum(s) / len(s).
FloatMean(s) ==
    LET total == FloatSum(s)
    IN  FloatRound(Rat(total.n, total.d * Len(s)))

\* GoodGymCounter.smooth_angle's return value in floats, h being
\* angle_history after the append.  The outlier test is the exact one: it
\* passes every value equal to the median, as the float test does.
SmoothValueFloat(h, angle) ==
    IF Len(h) < MinSmoothLen THEN Rat(angle, 1)
    ELSE LET median_angle == Median(h)
             std_dev_n2 == VarN2(h)
             n == Len(h)
             filtered == SelectSeq(h, LAMBDA x :
                             WithinTwoStd(x, median_angle, std_dev_n2, n))
         IN  IF Len(filtered) > 0 THEN FloatMean(filtered) ELSE Rat(angle, 1)

\* AdvancedMediaPipeAnalyzer.smooth_angle_sequence
smooth_angle_sequence(sequence) ==
    IF Len(sequence) < 3 THEN [k \in DOMAIN sequence |-> Rat(sequence[k], 1)]
    ELSE LET window_size == Min2(5, Len(sequence) \div 3)
         IN  [k \in DOMAIN sequence |->
                 LET start == Max2(1, k - window_size \div 2)
                     end == Min2(Len(sequence), k + window_size \div 2)
                 IN  FloatMean(SubSeq(sequence, start, end))]

\* The moving average of estimate_reps_from_angles, of window 3.
MovingAverageFloat(seq) ==
    [k \in DOMAIN seq |->
        LET start_idx == Max2(1, k - 1)
            end_idx == Min2(Len(seq), k + 1)
        IN  FloatMean(SubSeq(seq, start_idx, end_idx))]

\* Constant sequences of floats: every length up to MaxConstLen, from 5 on
\* for estimate_reps_from_angles, which smooths nothing shorter.
MaxConstLen == 12
ConstantAngles == 16..31

ConstantCalls ==
    {[fn |-> f, angles |-> [k \in 1..n |-> c]] :
        f \in {"smooth_angle", "smooth_angle_sequence"},
        n \in 1..MaxConstLen, c \in ConstantAngles}
    \cup {[fn |-> "estimate_reps_from_angles", angles |-> [k \in 1..n |-> c]] :
             n \in 5..MaxConstLen, c \in ConstantAngles}

InitSmooth ==
    /\ pc = "idle"
    /\ angle_sequence = <<>>
    /\ fps = 30
    /\ Idle
    /\ call \in ConstantCalls
    /\ ret = <<>>
    /\ scores = <<>>
    /\ NoOtherState

\* GoodGymCounter.smooth_angle on the next value, on a counter that starts
\* new.
SmoothAngle ==
    /\ call.fn = "smooth_angle"
    /\ Len(ret) < Len(call.angles)
    /\ LET angle == call.angles[Len(ret) + 1]
       IN  /\ angle_history' = DequeAppend(angle_history, angle)
           /\ ret' = Append(ret, SmoothValueFloat(angle_history', angle))
    /\ UNCHANGED <<pc, angle_sequence, fps, down_threshold, up_threshold, i,
                   counter, stage, last_count_time, smoothed, current_time,
                   rep_log, results, call, scores, OtherState>>

SmoothAngleSequence ==
    /\ call.fn = "smooth_angle_sequence"
    /\ ret = <<>>
    /\ ret' = <<smooth_angle_sequence(call.angles)>>
    /\ UNCHANGED <<Session, call, scores, OtherState>>

\* The smoothing step of estimate_reps_from_angles.
SmoothForEstimate ==
    /\ call.fn = "estimate_reps_from_angles"
    /\ ret = <<>>
    /\ ret' = <<MovingAverageFloat(call.angles)>>
    /\ UNCHANGED <<Session, call, scores, OtherState>>

NextSmooth == SmoothAngle \/ SmoothAngleSequence \/ SmoothForEstimate

SpecSmooth == InitSmooth /\ [][NextSmooth]_vars

(***************************************************************************)
(* video_processor.VideoProcessor.  A frame is what MediaPipe finds in it:  *)
(* whether there is a pose and, in hundredths, the height of both hips, the *)
(* sideways distance of the shoulders' midpoint from the hips' and the      *)
(* visibility of every keypoint.  Left and right are level and the nose     *)
(* stays where it is.                                                       *)
(***************************************************************************)
\* estimate_rep_count's smoothed signal, each value times the window size.
HipSmoothed(hip_positions) ==
    LET window_size == Min2(5, Len(hip_positions) \div 2)
    IN  [j \in 1..(Len(hip_positions) - window_size + 1) |->
            SeqSum(SubSeq(hip_positions, j, j + window_size - 1))]

\* abs(a - b) > 0.3 * np.std(sm), squared on both sides.
AboveThreshold(a, b, sm) ==
    100 * (a - b) * (a - b) * Len(sm) * Len(sm) > 9 * VarN2(sm)

\* The peaks of estimate_rep_count's loop from index k on, last being the
\* last peak appended (0 if none): a strict local maximum is appended if it
\* is the first or differs from the last one appended by more than the
\* threshold.
RECURSIVE HipPeaks(_, _, _)
HipPeaks(sm, k, last) ==
    IF k > Len(sm) - 1 THEN 0
    ELSE IF /\ sm[k] > sm[k - 1]
            /\ sm[k] > sm[k + 1]
            /\ (last = 0 \/ AboveThreshold(sm[k], sm[last], sm))
         THEN 1 + HipPeaks(sm, k + 1, k)
         ELSE HipPeaks(sm, k + 1, last)

\* VideoProcessor.estimate_rep_count
estimate_rep_count(history) ==
    IF Len(history) < 10 THEN 0
    ELSE HipPeaks(HipSmoothed([k \in DOMAIN history |-> history[k].hip_y]),
                  2, 0)

\* VideoProcessor.analyze_posture and calculate_form_score:
\* int(100 * (0.7 * (0.4 back + 0.3 symmetry + 0.3 stability)
\*            + 0.3 visibility)), symmetry being 1 and stability 1 for more
\* than 10 frames and 0.5 otherwise.
processor_form_score(history) ==
    LET n == Len(history)
        back == SeqSum([k \in DOMAIN history |->
                           Max2(0, 100 - 5 * history[k].deviation)])
        visibility == SeqSum([k \in DOMAIN history |-> history[k].visibility])
        stability42 == IF n > 10 THEN 42 ELSE 21
    IN  (2 * (28 * back + 30 * visibility) + (42 + stability42) * 100 * n)
            \div (200 * n)

\* VideoProcessor.analyze_pose_data
analyze_pose_data(history) ==
    IF history = <<>>
    THEN [success |-> TRUE, processed_frames |-> 0, form_score |-> 0,
          rep_count |-> 0]
    ELSE [success |-> TRUE, processed_frames |-> Len(history),
          form_score |-> processor_form_score(history),
          rep_count |-> estimate_rep_count(history)]

Failure ==
    [success |-> FALSE, processed_frames |-> 0, form_score |-> 0,
     rep_count |-> 0]

\* The frames of a video in which a pose is found.
PosesOf(video) == SelectSeq(video, LAMBDA f : f.pose)

\* process_video on a processor with the given history; raises says whether
\* pose.process raises.
process_video(history, video, raises) ==
    IF raises THEN [history |-> history, result |-> Failure]
    ELSE [history |-> history \o PosesOf(video),
          result |-> analyze_pose_data(history \o PosesOf(video))]

\* The videos: n frames of a triangle wave of the hips (one repetition in 8
\* frames, every peak as high as the others), of a person standing still,
\* or without anyone.
TriangleWave(k) == <<30, 40, 50, 60, 70, 60, 50, 40>>[((k - 1) % 8) + 1]

Video(kind, n, deviation, visibility) ==
    [k \in 1..n |->
        [pose |-> kind # "nobody",
         hip_y |-> IF kind = "reps" THEN TriangleWave(k) ELSE 50,
         deviation |-> deviation, visibility |-> visibility]]

Videos ==
    {Video("reps", n, 0, 100) : n \in {8, 12, 16, 24}}
    \cup {Video("still", n, 10, 85) : n \in {0, 3, 12}}
    \cup {Video("nobody", 12, 0, 0)}

MaxVideos == 2

\* One VideoProcessor and the videos handed to it one after the other.
InitProcessor ==
    /\ pc = "idle"
    /\ angle_sequence = <<>>
    /\ fps = 30
    /\ Idle
    /\ call \in UNION {[1..n -> Videos] : n \in 1..MaxVideos}
    /\ ret = <<>>
    /\ scores = <<>>
    /\ keypoints_history = <<>>
    /\ pose_closed = FALSE
    /\ sessions = <<>>

\* VideoProcessor.process_video on the next video.  What pose.process does
\* once pose.close() has been called is MediaPipe's: it raises or it works.
ProcessVideo ==
    /\ Len(ret) < Len(call)
    /\ \A k \in DOMAIN call : call[k] \in Videos
    /\ LET video == call[Len(ret) + 1]
       IN  \E raises \in IF pose_closed /\ video # <<>>
                         THEN BOOLEAN ELSE {FALSE} :
               \E out \in {process_video(keypoints_history, video, raises)} :
                   /\ keypoints_history' = out.history
                   /\ pose_closed' = (pose_closed \/ ~raises)
                   /\ ret' = Append(ret, out.result)
    /\ UNCHANGED <<Session, call, scores, sessions>>

NextProcessor == ProcessVideo

SpecProcessor == InitProcessor /\ [][NextProcessor]_vars

(***************************************************************************)
(* Two analyze_video calls in two threads, both in the counting loop, each  *)
(* with the GoodGymCounter it made.  A step is one count_rep call of one of *)
(* the two.                                                                 *)
(***************************************************************************)
ConcurrentSequences ==
    {<<170, 170, 60, 60, 60>>,
     <<60, 60, 170, 170, 170, 60, 60, 60>>,
     <<170, 60, 170, 60, 170, 60>>,
     <<170, 170, 60, 60, 60, 170, 170, 170, 60, 60, 60>>}

\* A session at the start of its loop: its thresholds, and its new counter
\* with the stage seeded from the first angle.
NewSession(seq, f) ==
    LET t == get_adaptive_thresholds(seq)
    IN  [angle_sequence |-> seq, fps |-> f,
         down_threshold |-> t.down, up_threshold |-> t.up, i |-> 0,
         counter |-> [NewCounter EXCEPT
                         !.stage = SeedStage(seq[1], t.down, t.up)]]

\* One counter for every session.
CounterOf_first(all, s) == all[1].counter

\* The counter session s calls count_rep on: the one it made.
CounterOf(all, s) == all[s].counter

\* Session s after one pass of its loop.
StepOf(all, s) ==
    LET me == all[s]
        self == CounterOf(all, s)
        angle == me.angle_sequence[me.i + 1]
        frame_num == (me.i + 1) * FrameStride
        h == DequeAppend(self.angle_history, angle)
        after == count_rep([counter |-> self.counter, stage |-> self.stage,
                            last_count_time |-> self.last_count_time],
                           SmoothValue(h, angle), frame_num, me.fps,
                           me.up_threshold, me.down_threshold)
    IN  [me EXCEPT !.i = me.i + 1,
                   !.counter = [counter |-> after.counter,
                                stage |-> after.stage,
                                angle_history |-> h,
                                last_count_time |-> after.last_count_time]]

InitConcurrent ==
    /\ pc = "idle"
    /\ angle_sequence = <<>>
    /\ fps = 30
    /\ Idle
    /\ call = None
    /\ ret = <<>>
    /\ scores = <<>>
    /\ keypoints_history = <<>>
    /\ pose_closed = FALSE
    /\ sessions \in [1..2 -> {NewSession(q, f) :
                                 q \in ConcurrentSequences, f \in FpsSet}]

\* One count_rep call of session s.
CountRepIn(s) ==
    /\ s \in DOMAIN sessions
    /\ sessions[s].i < Len(sessions[s].angle_sequence)
    /\ sessions' = [sessions EXCEPT ![s] = StepOf(sessions, s)]
    /\ UNCHANGED <<Session, call, ret, scores, keypoints_history, pose_closed>>

NextConcurrent == \E s \in 1..2 : CountRepIn(s)

SpecConcurrent == InitConcurrent /\ [][NextConcurrent]_vars

(***************************************************************************)
(* mediapipe_analyzer.AdvancedMediaPipeAnalyzer: count_repetitions_advanced *)
(* and detect_repetitions_from_sequence.  Smoothed angles and thresholds    *)
(* are kept times 60, so that the mean of 1 to 5 integers is an integer.    *)
(***************************************************************************)
\* exercise_templates: key_angles and rep_threshold.
RepTemplates ==
    [squat |-> [key_angles |-> <<"left_knee", "right_knee", "left_hip",
                                 "right_hip">>,
                rep_threshold |-> 30],
     push_up |-> [key_angles |-> <<"left_elbow", "right_elbow",
                                   "left_shoulder", "right_shoulder">>,
                  rep_threshold |-> 40],
     lunge |-> [key_angles |-> <<"left_knee", "right_knee", "left_hip",
                                 "right_hip">>,
                rep_threshold |-> 35]]

\* float('inf'): above every angle times 60.
Infinity == 1000000

\* The loop of detect_repetitions_from_sequence from sample k on; st holds
\* reps, in_rep, min_val and max_val.
RECURSIVE DetectFrom(_, _, _, _)
DetectFrom(sequence, threshold, k, st) ==
    IF k > Len(sequence) THEN st.reps
    ELSE LET angle == sequence[k]
             min_val == Min2(st.min_val, angle)
             max_val == Max2(st.max_val, angle)
             range_val == max_val - min_val
         IN  IF range_val > threshold /\ ~st.in_rep
             THEN DetectFrom(sequence, threshold, k + 1,
                      [reps |-> st.reps, in_rep |-> TRUE,
                       min_val |-> min_val, max_val |-> max_val])
             ELSE IF 2 * range_val < threshold /\ st.in_rep
             THEN DetectFrom(sequence, threshold, k + 1,
                      [reps |-> st.reps + 1, in_rep |-> FALSE,
                       min_val |-> angle, max_val |-> angle])
             ELSE DetectFrom(sequence, threshold, k + 1,
                      [reps |-> st.reps, in_rep |-> st.in_rep,
                       min_val |-> min_val, max_val |-> max_val])

\* AdvancedMediaPipeAnalyzer.detect_repetitions_from_sequence
detect_repetitions_from_sequence(sequence, threshold) ==
    IF Len(sequence) < 10 THEN 0
    ELSE DetectFrom(sequence, threshold, 1,
             [reps |-> 0, in_rep |-> FALSE,
              min_val |-> Infinity, max_val |-> -Infinity])

\* smooth_angle_sequence in exact arithmetic, every mean times 60.
SmoothedTimes60(sequence) ==
    IF Len(sequence) < 3 THEN [k \in DOMAIN sequence |-> 60 * sequence[k]]
    ELSE LET window_size == Min2(5, Len(sequence) \div 3)
         IN  [k \in DOMAIN sequence |->
                 LET start == Max2(1, k - window_size \div 2)
                     end == Min2(Len(sequence), k + window_size \div 2)
                 IN  SeqSum(SubSeq(sequence, start, end))
                         * (60 \div (end - start + 1))]

\* The values of one key angle in the frames of quality above 0.7 that
\* have it.
QualitySequence(history, angle_name) ==
    LET kept == SelectSeq(history, LAMBDA f :
                    Has(f.angles, angle_name) /\ f.quality > 70)
    IN  [k \in DOMAIN kept |-> kept[k].angles[angle_name]]

\* The repetitions of one key angle's sequence.
RepsOfAngle(history, angle_name, threshold) ==
    LET sequence == QualitySequence(history, angle_name)
    IN  IF Len(sequence) > 10
        THEN detect_repetitions_from_sequence(SmoothedTimes60(sequence),
                                              60 * threshold)
        ELSE 0

\* AdvancedMediaPipeAnalyzer.count_repetitions_advanced
count_repetitions_advanced(history, exercise_type) ==
    IF history = <<>> \/ exercise_type \notin DOMAIN RepTemplates THEN 0
    ELSE LET template == RepTemplates[exercise_type]
             reps == {RepsOfAngle(history, template.key_angles[k],
                                  template.rep_threshold) :
                         k \in DOMAIN template.key_angles}
         IN  CHOOSE r \in reps : \A q \in reps : q <= r

\* A triangle wave from 170 degrees down by the amplitude and back, one
\* oscillation in 4 or 6 samples.
WaveAt(period, amplitude, k) ==
    LET phase == (k - 1) % period
        half == period \div 2
        depth == IF phase <= half THEN phase ELSE period - phase
    IN  170 - (amplitude * depth) \div half

Wave(period, amplitude, n) == [k \in 1..n |-> WaveAt(period, amplitude, k)]

MaxWaveLen == 16

Waves ==
    {[period |-> p, amplitude |-> a, n |-> n] :
        p \in {4, 6}, a \in {24, 60, 90}, n \in 9..MaxWaveLen}

\* The frames of a session in which only the left knee, or only the left
\* elbow, is measured.
WaveHistory(w, joint, quality) ==
    [k \in 1..w.n |->
        [angles |-> IF joint = "left_knee"
                    THEN [left_knee |-> WaveAt(w.period, w.amplitude, k)]
                    ELSE [left_elbow |-> WaveAt(w.period, w.amplitude, k)],
         quality |-> quality]]

RepCalls ==
    {[fn |-> "detect_repetitions_from_sequence", wave |-> w,
      exercise_type |-> e] :
        w \in Waves, e \in DOMAIN RepTemplates}
    \cup {[fn |-> "count_repetitions_advanced", wave |-> w,
           exercise_type |-> e] :
             w \in Waves, e \in DOMAIN RepTemplates \cup {"general_exercise"}}

InitReps ==
    /\ pc = "idle"
    /\ angle_sequence = <<>>
    /\ fps = 30
    /\ Idle
    /\ call \in RepCalls
    /\ ret = <<>>
    /\ scores = <<>>
    /\ NoOtherState

\* detect_repetitions_from_sequence on a wave that is already smooth, with
\* the exercise's rep_threshold.
DetectRepetitions ==
    /\ call.fn = "detect_repetitions_from_sequence"
    /\ ret = <<>>
    /\ LET w == call.wave
           sequence == [k \in 1..w.n |-> 60 * WaveAt(w.period, w.amplitude, k)]
       IN  ret' = <<detect_repetitions_from_sequence(sequence,
                        60 * RepTemplates[call.exercise_type].rep_threshold)>>
    /\ UNCHANGED <<Session, call, scores, OtherState>>

\* count_repetitions_advanced on the frames of a session, of quality 0.9.
CountRepetitionsAdvanced ==
    /\ call.fn = "count_repetitions_advanced"
    /\ ret = <<>>
    /\ ret' = <<count_repetitions_advanced(
                    WaveHistory(call.wave,
                                IF call.exercise_type = "push_up"
                                THEN "left_elbow" ELSE "left_knee", 90),
                    call.exercise_type)>>
    /\ UNCHANGED <<Session, call, scores, OtherState>>

NextReps == DetectRepetitions \/ CountRepetitionsAdvanced

SpecReps == InitReps /\ [][NextReps]_vars

(***************************************************************************)
(* Properties of the repetition counter.                                   *)
(***************************************************************************)
\* A step of the loop: one call of count_rep.
IsCountRep == pc = "count" /\ i' = i + 1

\* The smoothed angle count_rep computed for sample k (1-based) of the
\* session, from the raw angles alone.
SmoothedAt(k) ==
    LET first == IF k > HistoryMaxLen THEN k - HistoryMaxLen + 1 ELSE 1
    IN  SmoothValue(SubSeq(angle_sequence, first, k), angle_sequence[k])

C2_NoOpBelowLow ==
    [][/\ (/\ IsCountRep
           /\ RLt(smoothed', down_threshold)
           /\ stage # "up")
          => UNCHANGED <<stage, counter, last_count_time>>
       /\ (/\ pc' = "done"
           /\ RLt(Rat(angle_sequence[1], 1), down_threshold)
           /\ \A k \in 1..Len(angle_sequence) :
                  ~RGt(SmoothedAt(k), up_threshold))
          => counter' = 0 /\ results' = <<0>>]_vars

\* A session that began at the bottom, stayed there for every sample (stage
\* "down" throughout, or still unknown) and returned 0.
C2_Witness ==
    /\ pc = "done"
    /\ results = <<0>>
    /\ stage = "down"
    /\ RLt(smoothed, down_threshold)
    /\ SeqMax(angle_sequence) > SeqMin(angle_sequence)
    /\ \A k \in 1..Len(angle_sequence) : ~RGt(SmoothedAt(k), up_threshold)

\* C3: a count_rep call whose smoothed angle is above the up threshold
\* leaves the stage "up", whatever it was, and does not change the counter.
C3_UpAboveHigh ==
    [][(IsCountRep /\ RGt(smoothed', up_threshold))
          => stage' = "up" /\ counter' = counter]_vars

\* The stage is back "up" after a counted repetition had set it "down".
C3_Witness ==
    /\ pc = "count"
    /\ counter >= 1
    /\ stage = "up"
    /\ RGt(smoothed, up_threshold)

C5_Original ==
    (pc = "count" /\ i = 0) => stage \in {"up", "down"}

\* C5: when counting starts the stage is "up" if the first angle is above
\* the up threshold, "down" if it is below the down threshold, and still
\* unknown if it lies between the two thresholds (bounds included).
C5_SeededStage ==
    (pc = "count" /\ i = 0) =>
        LET first == Rat(angle_sequence[1], 1)
        IN  /\ stage = "up" <=> RGt(first, up_threshold)
            /\ stage = "down" <=> RLt(first, down_threshold)
            /\ stage = None <=>
                   (RLe(down_threshold, first) /\ RLe(first, up_threshold))

C5_Witness ==
    /\ pc = "count"
    /\ i = 0
    /\ stage = None
    /\ RLt(down_threshold, Rat(angle_sequence[1], 1))
    /\ RLt(Rat(angle_sequence[1], 1), up_threshold)

\* C6 as claimed: the thresholds handed to the state machine satisfy
\* low < high.
C6_Original ==
    pc \in {"seed", "count", "done"} => RLt(down_threshold, up_threshold)

\* C6: low = min + 0.4 (max - min), high = min + 0.6 (max - min), so
\* low <= high, and low < high exactly when the sequence is not constant.
C6_AdaptiveThresholds ==
    pc \in {"seed", "count", "done"} =>
        LET lo == SeqMin(angle_sequence)
            hi == SeqMax(angle_sequence)
        IN  /\ 5 * (down_threshold.n - lo * down_threshold.d)
                   = 2 * (hi - lo) * down_threshold.d
            /\ 5 * (up_threshold.n - lo * up_threshold.d)
                   = 3 * (hi - lo) * up_threshold.d
            /\ RLe(down_threshold, up_threshold)
            /\ RLt(down_threshold, up_threshold) <=> hi > lo
            /\ REq(down_threshold, up_threshold) <=> hi = lo

C6_Witness ==
    /\ pc = "count"
    /\ SeqMax(angle_sequence) = SeqMin(angle_sequence)
    /\ REq(down_threshold, up_threshold)

\* C7: the 21-sample scenario at 30 fps gets the thresholds 122 and 138 and
\* ends with a repetition count of exactly 2.
C7_ScenarioCountsTwo ==
    (pc = "done" /\ angle_sequence = Scenario /\ fps = 30) =>
        /\ REq(down_threshold, Rat(122, 1))
        /\ REq(up_threshold, Rat(138, 1))
        /\ counter = 2
        /\ results = <<2>>

C7_Witness ==
    /\ pc = "done"
    /\ angle_sequence = Scenario
    /\ fps = 30
    /\ i = 21
    /\ rep_log = <<21, 51>>

\* C8: a session of N samples of the sinusoid of period P samples (8, 12 or
\* 16 samples: 0.8 s to 3.2 s at 30 and 15 fps, above the 0.5 s refractory
\* time) returns floor(N / P) repetitions, give or take 1.
C8_SineCount ==
    pc = "done" =>
        \A P \in Periods : \A phase \in 0..(P - 1) :
            LET N == Len(angle_sequence)
            IN  angle_sequence = SineSession(P, phase, N) =>
                    /\ counter >= (N \div P) - 1
                    /\ counter <= (N \div P) + 1

\* Three full periods and three repetitions.
C8_Witness ==
    /\ pc = "done"
    /\ angle_sequence = SineSession(12, 0, 36)
    /\ counter = 3

\* C9: a second call on the same angle sequence, with the same thresholds
\* and fps, returns the count the first call returned.
C9_SameCountTwice ==
    Len(results) = 2 => results[2] = results[1]

C9_Witness ==
    /\ Len(results) = 2
    /\ results[1] = 2
    /\ results[2] = 2

\* C10: each peak-based counter returns 0 for an input shorter than its
\* minimum length: fewer than 5 frames, or fewer than 5 tracked angles, for
\* estimate_reps_from_angles, fewer than 10 angles for RepCounter.count_reps,
\* fewer than 8 angles of the exercise's joint for count_reps_for_exercise.
C10_ShortInputZero ==
    ret # <<>> =>
        /\ (/\ call.fn = "estimate_reps_from_angles"
            /\ \/ Len(call.angle_history) < 5
               \/ Len(TrackedAngles(call.angle_history)) < 5) => ret = <<0>>
        /\ (/\ call.fn = "count_reps"
            /\ Len(call.angle_sequence) < 10) => ret = <<0>>
        /\ (/\ call.fn = "count_reps_for_exercise"
            /\ \/ call.exercise_type = "squat" /\ Len(call.knee_angles) < 8
               \/ call.exercise_type = "deadlift" /\ Len(call.hip_angles) < 8
               \/ call.exercise_type = "push_up" /\ Len(call.elbow_angles) < 8
               \/ /\ call.exercise_type = "general_exercise"
                  /\ Len(call.hip_angles) < 8
                  /\ Len(call.hip_angles) > 0 \/ Len(call.knee_angles) < 8)
               => ret = <<0>>

\* Four frames with both hips, enough to be classified a squat and too few
\* to be counted.
C10_Witness ==
    /\ call.fn = "estimate_reps_from_angles"
    /\ call.angle_history = <<FrameTop, FrameSquat, FrameTop, FrameSquat>>
    /\ ret = <<0>>

(***************************************************************************)
(* Properties of the exercise classifier.                                  *)
(***************************************************************************)
\* The label of the k-th call and the frames it was given.
LabelOf(k) == ret[k]
DataAt(k) == call[k].angle_data
Scored(k) == Len(DataAt(k)) >= 5

HighestScore == SeqMax([k \in DOMAIN SignatureOrder |-> scores[SignatureOrder[k]]])

\* C12: a scored session (5 frames or more) is labelled with a signature of
\* the highest score when that score is 3 or more and 'general_exercise'
\* when it is below 3; no signature scoring below 3 is returned.
C12_FloorOfThree ==
    (ret # <<>> /\ Scored(1)) =>
        /\ HighestScore >= 3 =>
               /\ LabelOf(1) \in DOMAIN EXERCISE_SIGNATURES
               /\ scores[LabelOf(1)] = HighestScore
        /\ HighestScore < 3 => LabelOf(1) = "general_exercise"
        /\ LabelOf(1) \in DOMAIN EXERCISE_SIGNATURES => scores[LabelOf(1)] >= 3

\* Knee ROM 31 with nothing else moving: deadlift scores 1, the others 0.
C12_Witness ==
    /\ ret = <<"general_exercise">>
    /\ Scored(1)
    /\ Roms(DataAt(1)).knee_rom = 2 * 31
    /\ scores.deadlift = 1
    /\ HighestScore = 1

\* C13: when deadlift (primary joint hip) and push_up (primary joint elbow)
\* tie for the highest score, the label is the one of the two whose primary
\* joint has the larger observed ROM.
C13_TieBreakByPrimaryRom ==
    (/\ ret # <<>>
     /\ Scored(1)
     /\ scores.deadlift = HighestScore
     /\ scores.push_up = HighestScore
     /\ scores.squat < HighestScore) =>
        LET roms == Roms(DataAt(1))
        IN  /\ roms.elbow_rom > roms.hip_rom => LabelOf(1) = "push_up"
            /\ roms.hip_rom > roms.elbow_rom => LabelOf(1) = "deadlift"

\* How a doubled ROM lies to an interval: inside, 1 degree outside, or else.
Inside(rom, interval) == 2 * interval[1] <= rom /\ rom <= 2 * interval[2]
OneOutside(rom, interval) ==
    rom = 2 * (interval[1] - 1) \/ rom = 2 * (interval[2] + 1)
Credit(rom, interval) == IF Inside(rom, interval) THEN 3 ELSE 1

\* C14: for deadlift and squat, when the hip ROM and the knee ROM are each
\* inside the signature's interval or 1 degree outside it, the score is the
\* sum of 3 for each ROM inside and 1 for each ROM 1 degree outside.
C14_PartialCredit ==
    (ret # <<>> /\ Scored(1)) =>
        \A ex \in {"deadlift", "squat"} :
            LET sig == EXERCISE_SIGNATURES[ex]
                roms == Roms(DataAt(1))
            IN  (/\ Inside(roms.hip_rom, sig.hip_rom)
                    \/ OneOutside(roms.hip_rom, sig.hip_rom)
                 /\ Inside(roms.knee_rom, sig.knee_rom)
                    \/ OneOutside(roms.knee_rom, sig.knee_rom))
                => scores[ex] = Credit(roms.hip_rom, sig.hip_rom)
                                    + Credit(roms.knee_rom, sig.knee_rom)

(***************************************************************************)
(* Properties of the ratio-based analyzers.                                *)
(***************************************************************************)
SpanOf(angles) == SeqMax(angles) - SeqMin(angles)
KnownExercises == {"squat", "deadlift", "push_up"}

\* deadlift only with hip_rom / (knee_rom + 1) > 1.5, squat only without.
RatioAgrees(label, hip_rom, knee_rom) ==
    /\ label = "deadlift" => 2 * hip_rom > 3 * (knee_rom + 1)
    /\ label = "squat" => 2 * hip_rom <= 3 * (knee_rom + 1)

\* C15: whenever good_gym's auto-detection, direct_mediapipe or
\* fixed_mediapipe labels a session, the label is 'deadlift' only if
\* hip_rom / (knee_rom + 1) > 1.5 and 'squat' only if it is at most 1.5.
C15_RatioDecidesLabel ==
    [][/\ (/\ pc = "poses"
           /\ pc' = "start"
           /\ call.exercise_type \in {None, ""})
          => RatioAgrees(call'.exercise_type, SpanOf(call.all_angles.hip),
                         SpanOf(call.all_angles.knee))
       /\ (/\ pc = "idle"
           /\ ret = <<>>
           /\ ret' # <<>>
           /\ "exercise_type" \in DOMAIN ret'[1])
          => RatioAgrees(ret'[1].exercise_type, SpanOf(call.hip_angles),
                         SpanOf(call.knee_angles))]_vars

\* Hip ROM 150 and knee ROM 99, ratio exactly 1.5: a squat.
C15_Witness ==
    /\ call.fn = "direct_mediapipe"
    /\ call.hip_angles = Swing(8, 150)
    /\ call.knee_angles = Swing(8, 99)
    /\ ret # <<>>
    /\ ret[1].exercise_type = "squat"
    /\ ret[1].rep_count > 0

\* C16 as stated: a hint among squat, deadlift and push_up is kept as the
\* exercise_type and selects knee, hip or elbow; every other hint raises.
C16_Original ==
    [][pc = "poses" =>
          /\ (call.exercise_type \in KnownExercises /\ pc' = "start") =>
                 /\ call'.exercise_type = call.exercise_type
                 /\ call.exercise_type = "squat"
                        => angle_sequence' = call.all_angles.knee
                 /\ call.exercise_type = "deadlift"
                        => angle_sequence' = call.all_angles.hip
                 /\ call.exercise_type = "push_up"
                        => angle_sequence' = call.all_angles.elbow
          /\ (/\ call.exercise_type # None
              /\ call.exercise_type \notin KnownExercises) => pc' = "raised"]_vars

\* C16, amended: a hint among squat, deadlift and push_up is kept as the
\* exercise_type and selects knee, hip or elbow whatever the ROMs are, and
\* with 5 poses or more the analysis goes on; every other non-empty hint
\* raises; an empty hint is auto-detected like no hint.
C16_HintBypassesDetection ==
    [][pc = "poses" =>
          /\ (call.exercise_type \in KnownExercises /\ pc' = "start") =>
                 /\ call'.exercise_type = call.exercise_type
                 /\ call.exercise_type = "squat"
                        => angle_sequence' = call.all_angles.knee
                 /\ call.exercise_type = "deadlift"
                        => angle_sequence' = call.all_angles.hip
                 /\ call.exercise_type = "push_up"
                        => angle_sequence' = call.all_angles.elbow
          /\ (call.exercise_type \in KnownExercises /\ call.pose_count >= 5)
                 => pc' = "start"
          /\ (/\ call.exercise_type \notin {None, ""}
              /\ call.exercise_type \notin KnownExercises) => pc' = "raised"
          /\ (call.exercise_type = "" /\ pc' = "start") =>
                 call'.exercise_type =
                     AutoDetect(SpanOf(call.all_angles.hip),
                                SpanOf(call.all_angles.knee),
                                SpanOf(call.all_angles.elbow))]_vars

\* A session with hip ROM 20 and knee ROM 99, which auto-detection never
\* calls a deadlift, analysed to the end as the deadlift the hint named.
C16_Witness ==
    /\ pc = "done"
    /\ call.fn = "good_gym"
    /\ call.exercise_type = "deadlift"
    /\ call.all_angles.hip = Swing(8, 20)
    /\ call.all_angles.knee = Swing(8, 99)
    /\ angle_sequence = call.all_angles.hip
    /\ Len(results) = 1

\* C17: good_gym's analyze_video raises only for a hint that is not an
\* exercise it knows, never for the session: not for fewer than 5 poses, not
\* for ROMs below 30 degrees, not for the lack of a dominant joint.
C17_NeverRaisesForSession ==
    pc = "raised" =>
        /\ call.exercise_type \notin {None, ""}
        /\ call.exercise_type \notin KnownExercises

\* C18: when fixed_mediapipe classifies a session of 8 poses or more as
\* general_exercise, it returns a result with a rep count.
C18_GenericStillCounts ==
    (/\ call.fn = "fixed_mediapipe"
     /\ ret # <<>>
     /\ call.pose_count >= 8
     /\ fixed_classify(SpanOf(call.hip_angles), SpanOf(call.knee_angles),
                       SpanOf(call.elbow_angles)) = "general_exercise")
        => "rep_count" \in DOMAIN ret[1]

(***************************************************************************)
(* Properties of the form scores.                                          *)
(***************************************************************************)
\* C19: calculate_form_score returns a score from 60 to 100 for every
\* non-empty angle sequence and every exercise type.
C19_ScoreFrom60To100 ==
    (call.fn = "calculate_form_score" /\ ret # <<>>) =>
        /\ ret[1] >= 60
        /\ ret[1] <= 100

\* A push-up with every deduction: too shallow (25) and not extended (15).
C19_Witness ==
    /\ call.fn = "calculate_form_score"
    /\ call.exercise_type = "push_up"
    /\ call.angles = <<125, 155>>
    /\ ret = <<60>>

\* The severity tiers in order, and the penalty the claim gives each.
TierRank(severity) ==
    IF severity = "mild" THEN 1 ELSE IF severity = "moderate" THEN 2 ELSE 3
TierPenalty(severity) ==
    IF severity = "mild" THEN 5 ELSE IF severity = "moderate" THEN 15 ELSE 25

\* C20: for every analysed frame of a templated exercise the score is 100
\* less 5, 15 or 25 for each flagged compensation by its tier (mild,
\* moderate, severe) and less the depth deduction of 0, 10 or 20; a larger
\* left/right difference of the same joint never gets a lower tier; and
\* every score is within 0 to 100.
C20_SeverityPenalties ==
    /\ \A k \in 1..Len(ret) :
           LET comps == ret[k].compensations
               penalty == SeqSum([c \in DOMAIN comps |->
                                     TierPenalty(comps[c].severity)])
           IN  /\ ret[k].overall_score >= 0
               /\ ret[k].overall_score <= 100
               /\ \A c \in DOMAIN comps :
                      comps[c].severity \in {"mild", "moderate", "severe"}
               /\ call[k].exercise_type \in ExerciseTemplates =>
                      100 - ret[k].overall_score - penalty \in {0, 10, 20}
    /\ \A j, k \in 1..Len(ret) :
           \A c \in DOMAIN ret[j].compensations :
               \A d \in DOMAIN ret[k].compensations :
                   LET x == ret[j].compensations[c]
                       y == ret[k].compensations[d]
                   IN  (x.type = y.type /\ x.value <= y.value)
                           => TierRank(x.severity) <= TierRank(y.severity)

\* Two squat frames: knees 15.01 apart (mild), then knees 30 apart (severe)
\* with hips 0.09 apart (severe) and shoulders 0.12 apart (severe).
C20_Witness ==
    /\ Len(ret) = 2
    /\ call[1].exercise_type = "squat"
    /\ Len(ret[1].compensations) = 1
    /\ ret[1].compensations[1].severity = "mild"
    /\ ret[1].overall_score = 75
    /\ Len(ret[2].compensations) = 3
    /\ \A c \in 1..3 : ret[2].compensations[c].severity = "severe"
    /\ ret[2].overall_score = 5

(***************************************************************************)
(* Properties of the angle routines.                                       *)
(***************************************************************************)
\* A point triple one of whose vectors from the vertex has length zero.
Degenerate(f) == f.a = f.b \/ f.c = f.b

\* C21: for a degenerate point triple (A equal to B, or C equal to B) an
\* angle routine returns the invalid value: neither a NaN nor a number of
\* degrees.
C21_DegenerateIsInvalid ==
    (ret # <<>> /\ call.fn \in {"calculate_angle_from_lm", "calculate_angle",
                                "calculate_angle_3d"}
        /\ Degenerate(call))
        => ret[1].kind = "invalid"

(***************************************************************************)
(* Properties of the smoothers.                                            *)
(***************************************************************************)
\* The values returned so far for the constant sequence of the call.
SmoothedValues ==
    IF call.fn = "smooth_angle" THEN ret
    ELSE IF ret = <<>> THEN <<>> ELSE ret[1]

SameLength ==
    (call.fn # "smooth_angle" /\ ret # <<>>) => Len(ret[1]) = Len(call.angles)

C23_EachCallOnItsOwnFrames ==
    \A k \in 1..Len(ret) :
        LET alone == process_video(<<>>, call[k], FALSE).result
        IN  ret[k].success =>
                /\ ret[k].rep_count = alone.rep_count
                /\ ret[k].form_score = alone.form_score
                /\ ret[k].processed_frames = alone.processed_frames

\* The strict local maxima of a signal.
StrictMaxima(sm) ==
    {k \in 2..(Len(sm) - 1) : sm[k] > sm[k - 1] /\ sm[k] > sm[k + 1]}

\* C27: for a video of at least 10 frames with a pose, a new VideoProcessor
\* reports as rep_count the number of strict local maxima of the smoothed
\* hip height: k for k repetitions of equal height.
C27_CountsEveryPeak ==
    (Len(ret) >= 1 /\ ret[1].success /\ Len(PosesOf(call[1])) >= 10)
        => LET poses == PosesOf(call[1])
               sm == HipSmoothed([k \in DOMAIN poses |-> poses[k].hip_y])
           IN  ret[1].rep_count = Cardinality(StrictMaxima(sm))

(***************************************************************************)
(* Properties of concurrent sessions.                                      *)
(***************************************************************************)
\* A session run to its end with nothing else running.
RECURSIVE RunAlone(_)
RunAlone(session) ==
    IF session.i = Len(session.angle_sequence) THEN session
    ELSE RunAlone(StepOf(<<session>>, 1))

AllDone ==
    /\ DOMAIN sessions = 1..2
    /\ \A s \in 1..2 : sessions[s].i = Len(sessions[s].angle_sequence)

\* C24: when two concurrent sessions have ended, whatever the order of their
\* count_rep steps was, each has the count and the stage it reaches when it
\* runs alone.
C24_InterleavingInvisible ==
    AllDone =>
        \A s \in 1..2 :
            LET alone == RunAlone(NewSession(sessions[s].angle_sequence,
                                             sessions[s].fps))
            IN  /\ sessions[s].counter.counter = alone.counter.counter
                /\ sessions[s].counter.stage = alone.counter.stage

\* Both sessions have ended, one with two repetitions and one with one.
C24_Witness ==
    /\ AllDone
    /\ sessions[1].counter.counter = 2
    /\ sessions[2].counter.counter = 1
    /\ sessions[1].angle_sequence # sessions[2].angle_sequence

(***************************************************************************)
(* Properties of the refractory period and of the stages between counts.    *)
(***************************************************************************)
\* What the samples and the log say about sample k (1-based) of the session:
\* the frame of the last repetition counted before it (0 if none), whether
\* its smoothed angle is below the down threshold, and whether the stage was
\* "up" when it came: seeded "up" or set "up" by an earlier sample, with no
\* repetition counted since.
LastCountBefore(k) ==
    LET earlier == {t \in Range(rep_log) : t < FrameStride * k}
    IN  IF earlier = {} THEN 0
        ELSE CHOOSE t \in earlier : \A u \in earlier : u <= t

BelowLow(k) == RLt(SmoothedAt(k), down_threshold)

UpBefore(k) ==
    \/ /\ RGt(Rat(angle_sequence[1], 1), up_threshold)
       /\ LastCountBefore(k) = 0
    \/ \E m \in 1..(k - 1) :
           /\ RGt(SmoothedAt(m), up_threshold)
           /\ LastCountBefore(k) < FrameStride * m

\* A down-crossing at sample k that the refractory period blocks.
BlockedAt(k) ==
    /\ BelowLow(k)
    /\ UpBefore(k)
    /\ 2 * (FrameStride * k - LastCountBefore(k)) <= fps

C28_RiseBetweenCounts ==
    /\ [][/\ counter' > counter => stage' = "down"
          /\ (/\ IsCountRep
              /\ stage = "down"
              /\ ~RGt(smoothed', up_threshold))
             => stage' = "down" /\ counter' = counter]_vars
    /\ [](pc \in {"count", "done"} =>
            \A n \in 2..Len(rep_log) :
                \E m \in 1..i :
                    /\ rep_log[n - 1] < FrameStride * m
                    /\ FrameStride * m < rep_log[n]
                    /\ RGt(SmoothedAt(m), up_threshold))

\* A session that ended with two repetitions, the second after the angle had
\* come back above the up threshold.
C28_Witness ==
    /\ pc = "done"
    /\ Len(rep_log) = 2
    /\ stage = "down"
    /\ \E m \in 1..i :
           /\ rep_log[1] < FrameStride * m
           /\ FrameStride * m < rep_log[2]
           /\ RGt(SmoothedAt(m), up_threshold)

\* C29: every repetition of the log, the first included, was counted at a
\* sample later than 0.5 s: twice its frame number exceeds fps.
C29_NoCountInFirstHalfSecond ==
    \A n \in 1..Len(rep_log) : 2 * rep_log[n] > fps

\* At 30 fps the fifth sample, at exactly 0.5 s, is below the down threshold
\* with the stage "up" and is not counted; the sixth is.
C29_Witness ==
    /\ pc = "count"
    /\ fps = 30
    /\ BlockedAt(5)
    /\ 2 * 5 * FrameStride = fps
    /\ rep_log = <<6 * FrameStride>>

(***************************************************************************)
(* Properties of the repetition detection of mediapipe_analyzer.           *)
(***************************************************************************)
\* C26: for a smooth sequence of at least 10 samples with k >= 1 complete
\* oscillations of an amplitude above the exercise's rep_threshold,
\* detect_repetitions_from_sequence returns a positive count between k - 1
\* and k + 1.
C26_CountsOscillations ==
    (/\ ret # <<>>
     /\ call.fn = "detect_repetitions_from_sequence"
     /\ call.wave.n >= 10
     /\ call.wave.n \div call.wave.period >= 1
     /\ call.wave.amplitude > RepTemplates[call.exercise_type].rep_threshold)
        => LET k == call.wave.n \div call.wave.period
           IN  ret[1] >= 1 /\ ret[1] >= k - 1 /\ ret[1] <= k + 1

(***************************************************************************)
(* The classifier on a session without movement.                           *)
(***************************************************************************)
\* C30: a scored session (5 frames or more) whose hip, knee and elbow ROM
\* are all 0 is labelled 'general_exercise', not with a signature.
C30_StillIsGeneric ==
    (/\ ret # <<>>
     /\ Scored(1)
     /\ Roms(DataAt(1)).hip_rom = 0
     /\ Roms(DataAt(1)).knee_rom = 0
     /\ Roms(DataAt(1)).elbow_rom = 0)
        => LabelOf(1) = "general_exercise"

====
